---- MODULE Spec2Model ----
(***************************************************************************)
(* Live trade ingestion pipeline of trade-copilot (backend/app/services):  *)
(*   - TradeProcessingService: process_trade_opened / _closed / _updated,  *)
(*     run as asyncio tasks that interleave at their await points;         *)
(*   - MetaApiService._listen_for_events: the polling loop, its position   *)
(*     diff and the reconciliation sweep;                                  *)
(*   - MetaApiService.connect: the per-account connection registry.        *)
(*                                                                         *)
(* Conventions: a Python None is 0 (trade ids start at 1, price levels at  *)
(* 1); a missing external id is the empty string, as str(data.get(...,"")) *)
(* makes it.  The database is the sequence of committed rows; what a       *)
(* session has read or changed but not committed lives in the call record. *)
(***************************************************************************)
EXTENDS Integers, Sequences, FiniteSets, TLC

\* ---------------------------------------------------------------- bounds
MaxCalls  == 3     \* calls the external callers (webhook, REST) make in a run
MaxFaults == 1     \* persistence steps that raise in a run
MaxMoves  == 3     \* position changes the broker makes in a run
MaxConnects == 2   \* connect calls made in a run
ReconcileInterval == 3   \* reconcile_interval
MaxRetries == 3    \* METAAPI_CONNECT_RETRIES, by default
MaxReconnectAttempts == 5   \* ConnectionState.max_reconnect_attempts
MaxCrashes == 1    \* listener tasks that fail unexpectedly in a run
MaxDisconnects == 1   \* disconnect calls made in a run
MaxSweeps == 2     \* reconciliation sweeps run back to back on one snapshot
MaxBroadcasts == 2 \* broadcast_to_user calls made in a run
MaxBreaks == 2     \* sockets whose client goes away in a run
MaxHangs == 1      \* sockets whose client stops reading in a run

Users   == {"u1", "u2"}
ExtIds  == {"", "p1"}                 \* "" is a missing external_id
Positions == {"p1", "p2", "p3"}             \* position ids of the streamed account
LoopUser == "u1"                      \* the user whose account is streamed
LevelPairs == {<<0, 0>>, <<1, 2>>}    \* (stop-loss, take-profit); 0 is None
EntryPrices == {1}                     \* entry_price of an opened event
ExitPrices  == {0, 2}                  \* exit_price of a closed event; 0 is None
ExtTasks == {"t1", "t2"}               \* tasks of external callers
LoopTask == "loop"                     \* the polling loop's task
Tasks   == ExtTasks \cup {LoopTask}
ConnTasks == {"c1", "c2"}              \* tasks that call connect()
ReconnTask == "r1"                     \* a listener task inside _handle_reconnection
ConnKeys == {<<"u1", "a1">>, <<"u1", "a2">>}   \* conn_key: user and account
WebSockets == {"s1", "s2", "s3"}           \* the sockets clients open
BcastTasks == {"b1", "b2"}                 \* tasks that call broadcast_to_user

VARIABLES
    trades,            \* committed Trade rows; a row's id is its index
    trade_logs,        \* committed TradeLog rows (append-only audit log)
    broadcasts,        \* messages handed to ws_manager.broadcast_to_user
    background_tasks,  \* scoring tasks created by asyncio.create_task
    open_trade_locks,  \* _open_trade_locks: lock key -> holding task or "free"
    call,              \* per task: the trade-processor call it is running
    callsLeft,         \* remaining MaxCalls budget
    faultsLeft         \* remaining MaxFaults budget

tpVars == <<trades, trade_logs, broadcasts, background_tasks,
            open_trade_locks, call, callsLeft, faultsLeft>>

VARIABLES
    positions,          \* terminal_state.positions at the broker: id -> levels
    known_positions,    \* the loop's remembered previous snapshot
    current_positions,  \* the snapshot read in the current cycle
    loop,               \* the polling loop's locals and where it stands
    emitted,            \* events the current diff pass has handed over, in order
    movesLeft,          \* remaining MaxMoves budget
    sweepsLeft          \* remaining MaxSweeps budget (sweeps run back to back)

pollVars == <<positions, known_positions, current_positions, loop, emitted,
              movesLeft, sweepsLeft>>

VARIABLES
    states,        \* every ConnectionState created so far, by object identity
    connections,   \* _connections: conn_key -> the ConnectionState it holds
    listeners,     \* the _listen_for_events tasks created so far
    conn,          \* per connect caller: where its connect() call stands
    connectsLeft,  \* remaining MaxConnects budget
    disc,          \* the disconnect caller: where its disconnect() call stands
    crashesLeft,   \* remaining MaxCrashes budget
    disconnectsLeft \* remaining MaxDisconnects budget

connVars == <<states, connections, listeners, conn, connectsLeft, disc,
              crashesLeft, disconnectsLeft>>

VARIABLES
    ws_connections,  \* WebSocketManager._connections: user -> list of sockets
    sockets,         \* every WebSocket: whose it is and the state it is in
    received,        \* per socket: the messages whose send_text completed
    bcast,           \* per caller: where its broadcast_to_user call stands
    serial,          \* broadcast_to_user calls made so far
    breaksLeft,      \* remaining MaxBreaks budget
    hangsLeft        \* remaining MaxHangs budget

wsVars == <<ws_connections, sockets, received, bcast, serial, breaksLeft,
            hangsLeft>>

VARIABLES
    calc             \* one row in process_trade_closed's loop: inputs and results

VARIABLES
    beat,               \* one account's connect call and polling loop, for the heartbeat
    mt_last_heartbeat,  \* MetaAccount.mt_last_heartbeat as committed, per account
    now,                \* datetime.now(timezone.utc), in minutes
    report,             \* what the last status query answered
    beatFaultsLeft,     \* remaining MaxBeatFaults budget
    raisesLeft          \* remaining MaxRaises budget

beatVars == <<beat, mt_last_heartbeat, now, report, beatFaultsLeft, raisesLeft>>

VARIABLES
    stop             \* where the process stands between running and shut down

VARIABLES
    advice           \* one scoring request and what the task makes of it

VARIABLES
    flagged          \* one open call's behavioral checks and what it persists

VARIABLES
    engine           \* one run of the behavioral checks on a candidate trade

VARIABLES
    startup          \* the auto-reconnect routine and the tasks it starts

lateVars == <<flagged, engine, startup>>

restVars == <<stop, advice, lateVars>>

auxVars == <<calc, beatVars, restVars>>

vars == <<tpVars, pollVars, connVars, wsVars, auxVars>>

\* ------------------------------------------------------------- helpers
Range(s) == {s[i] : i \in DOMAIN s}

SetMax(S) == CHOOSE x \in S : \A y \in S : y <= x

\* a value that is None, and the value v
None == <<>>

Some(v) == <<v>>

\* Trade.ai_analysis is None or a dict: the dump of a score, in which a
\* modification analysis nests the analysis it was given as "open_thesis".
\* The dict is written from the outside in: <<"modified", "pre_trade">> is a
\* modification analysis whose open_thesis is the open-time analysis.
HasOpenThesis(analysis) == Len(analysis) >= 2

IdleCall == [op |-> "none", pc |-> "idle", user |-> "u1", ext |-> "",
             sl |-> 0, tp |-> 0, entry_price |-> 0, exit_price |-> 0,
             src |-> "ext", pnl |-> 0, original_analysis |-> None,
             rows |-> {}, ret |-> 0, outcome |-> "none", persisted |-> FALSE]

\* the same query without its status filter
RowsOfAnyStatus(u, e) ==
    {i \in DOMAIN trades : /\ trades[i].user_id = u
                           /\ trades[i].external_trade_id = e}

\* a select that finds only the newest OPEN row of the key
NewestOpenRowOnly(u, e) ==
    LET S == {i \in DOMAIN trades : /\ trades[i].user_id = u
                                    /\ trades[i].external_trade_id = e
                                    /\ trades[i].status = "OPEN"}
    IN  IF S = {} THEN {} ELSE {SetMax(S)}

\* select(Trade).where(user_id == u, external_trade_id == e, status == OPEN)
OpenRows(u, e) ==
    {i \in DOMAIN trades : /\ trades[i].user_id = u
                           /\ trades[i].external_trade_id = e
                           /\ trades[i].status = "OPEN"}

\* a processor with one lock for all keys
LockKeyShared(u, e) == <<"u1", "p1">>

\* Line 100: lock_key = f"{user_id}:{external_id}"
LockKey(u, e) == <<u, e>>

\* a processor whose per-key lock never excludes anyone
LockHeldNever(k) == FALSE

\* asyncio.Lock.locked() of the key's lock; a key never used has no lock yet
LockHeld(k) == k \in DOMAIN open_trade_locks /\ open_trade_locks[k] # "free"

\* a persistence step either works or, while the fault budget lasts, raises
FaultChoices == IF faultsLeft > 0 THEN {FALSE, TRUE} ELSE {FALSE}

SpendFault(f) == faultsLeft' = IF f THEN faultsLeft - 1 ELSE faultsLeft

SetCall(t, r) == call' = [call EXCEPT ![t] = r]

\* the call returns: pc "done", its result and why it ended; the session and
\* the call's arguments are gone
Returned(c, ret, outcome) ==
    [IdleCall EXCEPT !.op = c.op, !.user = c.user, !.ext = c.ext, !.src = c.src,
                     !.persisted = c.persisted,
                     !.pc = "done", !.ret = ret, !.outcome = outcome]

Release(k) == open_trade_locks' = [open_trade_locks EXCEPT ![k] = "free"]

\* ------------------------------------------- process_trade_opened
\* Lines 90-105: reject a missing external id, create the key's lock lazily
\* and take it; an unlocked asyncio.Lock is acquired without yielding.
BeginOpen(t, u, e, entry, sl, tp, src) ==
    LET c == [IdleCall EXCEPT !.op = "open", !.user = u, !.ext = e,
                              !.entry_price = entry,
                              !.sl = sl, !.tp = tp, !.src = src]
        k == LockKey(u, e)
    IN  IF e = ""
        THEN /\ SetCall(t, Returned(c, 0, "noext"))
             /\ UNCHANGED open_trade_locks
        ELSE IF LockHeld(k)
        THEN /\ SetCall(t, [c EXCEPT !.pc = "o_wait"])
             /\ UNCHANGED open_trade_locks
        ELSE /\ SetCall(t, [c EXCEPT !.pc = "o_select"])
             /\ open_trade_locks' = (k :> t) @@ open_trade_locks

\* Line 104: a waiter gets the lock once its holder has released it.
OpenAcquire(t) ==
    LET c == call[t]
        k == LockKey(c.user, c.ext)
    IN  /\ c.pc = "o_wait"
        /\ ~LockHeld(k)
        /\ open_trade_locks' = [open_trade_locks EXCEPT ![k] = t]
        /\ SetCall(t, [c EXCEPT !.pc = "o_select"])
        /\ UNCHANGED <<trades, trade_logs, broadcasts, background_tasks,
                       callsLeft, faultsLeft>>

\* a duplicate check that never finds the existing row
DuplicateOpenIgnored(existing) == FALSE

\* Lines 124-125: "if existing_trade:"
DuplicateOpen(existing) == existing # {}

\* Lines 113-129: the duplicate check.  scalar_one_or_none raises on two rows,
\* which the handler's except turns into rollback and None.
OpenSelect(t) ==
    LET c == call[t]
        k == LockKey(c.user, c.ext)
        existing == OpenRows(c.user, c.ext)
    IN  /\ c.pc = "o_select"
        /\ \E f \in FaultChoices :
             /\ SpendFault(f)
             /\ IF f
                THEN SetCall(t, Returned(c, 0, "dberr")) /\ Release(k)
                ELSE IF Cardinality(existing) > 1
                THEN SetCall(t, Returned(c, 0, "multi")) /\ Release(k)
                ELSE IF DuplicateOpen(existing)
                THEN SetCall(t, Returned(c, SetMax(existing), "dup")) /\ Release(k)
                ELSE SetCall(t, [c EXCEPT !.pc = "o_commit"])
                     /\ UNCHANGED open_trade_locks
        /\ UNCHANGED <<trades, trade_logs, broadcasts, background_tasks, callsLeft>>

\* Lines 132-143: the new row.
NewTrade(c) ==
    [user_id |-> c.user, external_trade_id |-> c.ext, status |-> "OPEN",
     entry_price |-> c.entry_price, sl |-> c.sl, tp |-> c.tp,
     exit_price |-> 0, pnl |-> 0,
     ai_score |-> 0, ai_analysis |-> None, ai_review |-> 0]

\* Lines 132-143 and 212: the Trade object the call returns is the one it
\* built and added to its own session; sessions do not expire attributes on
\* commit (database.py 31), and the call assigns nothing to it afterwards.
ReturnedTrade(c) == NewTrade(c)

\* Lines 131-172: insert, flush, behavioral checks, the "opened" log entry and
\* the one commit that persists row and entry together; any of these raising
\* rolls everything back.
OpenCommit(t) ==
    LET c == call[t]
        k == LockKey(c.user, c.ext)
        id == Len(trades) + 1
    IN  /\ c.pc = "o_commit"
        /\ \E f \in FaultChoices :
             /\ SpendFault(f)
             /\ IF f
                THEN /\ SetCall(t, Returned(c, 0, "dberr"))
                     /\ Release(k)
                     /\ UNCHANGED <<trades, trade_logs>>
                ELSE /\ trades' = Append(trades, NewTrade(c))
                     /\ trade_logs' = Append(trade_logs,
                            [trade_id |-> id, event_type |-> "opened"])
                     /\ SetCall(t, [c EXCEPT !.pc = "o_bcast", !.ret = id,
                                             !.persisted = TRUE])
                     /\ UNCHANGED open_trade_locks
        /\ UNCHANGED <<broadcasts, background_tasks, callsLeft>>

\* a processor with no broadcaster attached: the step sends nothing
OpenBroadcastSkipped(t) ==
    LET c == call[t]
    IN  /\ c.pc = "o_bcast"
        /\ SetCall(t, [c EXCEPT !.pc = "o_finish"])
        /\ UNCHANGED <<trades, trade_logs, broadcasts, background_tasks,
                       open_trade_locks, callsLeft, faultsLeft>>

\* Lines 175-183: the trade_opened broadcast, awaited before scoring is scheduled.
OpenBroadcast(t) ==
    LET c == call[t]
    IN  /\ c.pc = "o_bcast"
        /\ broadcasts' = Append(broadcasts,
              [type |-> "trade_opened", trade_id |-> c.ret, user_id |-> c.user])
        /\ SetCall(t, [c EXCEPT !.pc = "o_finish"])
        /\ UNCHANGED <<trades, trade_logs, background_tasks, open_trade_locks,
                       callsLeft, faultsLeft>>

\* Lines 185-192, 569-585, 663-673: the task asyncio.create_task returns, as
\* _background_tasks holds it: the coroutine and its arguments, not yet run.
\* Tasks are distinct objects; `by` and `at` tell two of the same kind apart.
ScoringTask(kind, t, c) ==
    [kind |-> kind, trade_id |-> c.ret, user_id |-> c.user,
     original_analysis |-> c.original_analysis,
     by |-> t, at |-> Len(broadcasts), pc |-> "scheduled"]

\* Lines 185-212: schedule _run_pre_trade_ai, notify (errors swallowed), return
\* the trade; leaving "async with lock" releases the lock.
OpenFinish(t) ==
    LET c == call[t]
    IN  /\ c.pc = "o_finish"
        /\ background_tasks' = background_tasks \cup
              {ScoringTask("pre_trade", t, c)}
        /\ SetCall(t, Returned(c, c.ret, "ok"))
        /\ Release(LockKey(c.user, c.ext))
        /\ UNCHANGED <<trades, trade_logs, broadcasts, callsLeft, faultsLeft>>


\* ------------------------------------------- process_trade_closed
\* Lines 455-462: the call as made; nothing is awaited before the select.
BeginClose(t, u, e, exit, pnl, src) ==
    LET c == [IdleCall EXCEPT !.op = "close", !.user = u, !.ext = e,
                              !.exit_price = exit, !.pnl = pnl, !.src = src]
    IN  /\ IF e = ""
           THEN SetCall(t, Returned(c, 0, "noext"))
           ELSE SetCall(t, [c EXCEPT !.pc = "c_select"])
        /\ UNCHANGED open_trade_locks

\* Lines 464-481: every OPEN row of the key; none means None is returned.  No
\* lock is taken on this path.
CloseSelect(t) ==
    LET c == call[t]
        open_trades == OpenRows(c.user, c.ext)
    IN  /\ c.pc = "c_select"
        /\ \E f \in FaultChoices :
             /\ SpendFault(f)
             /\ IF f
                THEN SetCall(t, Returned(c, 0, "dberr"))
                ELSE IF open_trades = {}
                THEN SetCall(t, Returned(c, 0, "noopen"))
                ELSE SetCall(t, [c EXCEPT !.pc = "c_commit", !.rows = open_trades,
                                          !.ret = SetMax(open_trades)])
        /\ UNCHANGED <<trades, trade_logs, broadcasts, background_tasks,
                       open_trade_locks, callsLeft>>

\* Lines 511-526: the estimate from the price movement, for an entry price of
\* at most 20 and a BUY of one lot, in units of 1000 of the account currency.
PriceDerivedPnl(entry_price, exit_price) == (exit_price - entry_price) * 10

\* Lines 487-526: what the loop writes into a row it closes; the caller's pnl
\* is taken when it is not None (0 here).
ClosedRow(row, c) ==
    LET exit_price == IF c.exit_price # 0 THEN c.exit_price ELSE row.entry_price
    IN  [row EXCEPT !.status = "CLOSED",
                    !.exit_price = exit_price,
                    !.pnl = IF c.pnl # 0 THEN c.pnl
                            ELSE PriceDerivedPnl(row.entry_price, exit_price)]

\* Lines 483-555: the rows read at the select are written CLOSED (the session
\* updates them by primary key, whatever they hold by now), the "closed" entry
\* is added for the newest, and the first commit persists both.
CloseCommit(t) ==
    LET c == call[t]
    IN  /\ c.pc = "c_commit"
        /\ \E f \in FaultChoices :
             /\ SpendFault(f)
             /\ IF f
                THEN /\ SetCall(t, Returned(c, 0, "dberr"))
                     /\ UNCHANGED <<trades, trade_logs>>
                ELSE /\ trades' = [i \in DOMAIN trades |->
                            IF i \in c.rows THEN ClosedRow(trades[i], c)
                            ELSE trades[i]]
                     /\ trade_logs' = Append(trade_logs,
                            [trade_id |-> c.ret, event_type |-> "closed"])
                     /\ SetCall(t, [c EXCEPT !.pc = "c_stats", !.persisted = TRUE])
        /\ UNCHANGED <<broadcasts, background_tasks, open_trade_locks, callsLeft>>

\* Lines 556-557 and 606-609: save_daily_stats and the second commit run after
\* the close is committed; if they raise, the rollback finds nothing to undo
\* and None is returned.
CloseStats(t) ==
    LET c == call[t]
    IN  /\ c.pc = "c_stats"
        /\ \E f \in FaultChoices :
             /\ SpendFault(f)
             /\ IF f
                THEN SetCall(t, Returned(c, 0, "dberr"))
                ELSE SetCall(t, [c EXCEPT !.pc = "c_bcast"])
        /\ UNCHANGED <<trades, trade_logs, broadcasts, background_tasks,
                       open_trade_locks, callsLeft>>

\* Lines 559-567: the trade_closed broadcast for the newest row.
CloseBroadcast(t) ==
    LET c == call[t]
    IN  /\ c.pc = "c_bcast"
        /\ broadcasts' = Append(broadcasts,
              [type |-> "trade_closed", trade_id |-> c.ret, user_id |-> c.user])
        /\ SetCall(t, [c EXCEPT !.pc = "c_finish"])
        /\ UNCHANGED <<trades, trade_logs, background_tasks, open_trade_locks,
                       callsLeft, faultsLeft>>

\* Lines 569-605: schedule _run_post_trade_ai, notify, return the newest row.
CloseFinish(t) ==
    LET c == call[t]
    IN  /\ c.pc = "c_finish"
        /\ background_tasks' = background_tasks \cup
              {ScoringTask("post_trade", t, c)}
        /\ SetCall(t, Returned(c, c.ret, "ok"))
        /\ UNCHANGED <<trades, trade_logs, broadcasts, open_trade_locks,
                       callsLeft, faultsLeft>>

\* ------------------------------------------- process_trade_updated
\* Lines 611-616: no check of the external id here.
BeginUpdate(t, u, e, sl, tp, src) ==
    LET c == [IdleCall EXCEPT !.op = "update", !.user = u, !.ext = e,
                              !.sl = sl, !.tp = tp, !.src = src]
    IN  /\ SetCall(t, [c EXCEPT !.pc = "u_select"])
        /\ UNCHANGED open_trade_locks

\* Lines 617-630: the one OPEN row of the key (scalar_one_or_none).
UpdateSelect(t) ==
    LET c == call[t]
        found == OpenRows(c.user, c.ext)
    IN  /\ c.pc = "u_select"
        /\ \E f \in FaultChoices :
             /\ SpendFault(f)
             /\ IF f
                THEN SetCall(t, Returned(c, 0, "dberr"))
                ELSE IF Cardinality(found) > 1
                THEN SetCall(t, Returned(c, 0, "multi"))
                ELSE IF found = {}
                THEN SetCall(t, Returned(c, 0, "noopen"))
                ELSE SetCall(t, [c EXCEPT !.pc = "u_commit", !.rows = found,
                                          !.ret = SetMax(found),
                                          !.original_analysis =
                                              trades[SetMax(found)].ai_analysis])
        /\ UNCHANGED <<trades, trade_logs, broadcasts, background_tasks,
                       open_trade_locks, callsLeft>>

\* Lines 632-643: the new levels are committed on their own.
UpdateCommit(t) ==
    LET c == call[t]
    IN  /\ c.pc = "u_commit"
        /\ \E f \in FaultChoices :
             /\ SpendFault(f)
             /\ IF f
                THEN /\ SetCall(t, Returned(c, 0, "dberr"))
                     /\ UNCHANGED trades
                ELSE /\ trades' = [trades EXCEPT ![c.ret].sl = c.sl,
                                                 ![c.ret].tp = c.tp]
                     /\ SetCall(t, [c EXCEPT !.pc = "u_log", !.persisted = TRUE])
        /\ UNCHANGED <<trade_logs, broadcasts, background_tasks,
                       open_trade_locks, callsLeft>>

\* Lines 645-652: the "modified" entry is committed after the levels.
UpdateLog(t) ==
    LET c == call[t]
    IN  /\ c.pc = "u_log"
        /\ \E f \in FaultChoices :
             /\ SpendFault(f)
             /\ IF f
                THEN /\ SetCall(t, Returned(c, 0, "dberr"))
                     /\ UNCHANGED trade_logs
                ELSE /\ trade_logs' = Append(trade_logs,
                            [trade_id |-> c.ret, event_type |-> "modified"])
                     /\ SetCall(t, [c EXCEPT !.pc = "u_bcast"])
        /\ UNCHANGED <<trades, broadcasts, background_tasks,
                       open_trade_locks, callsLeft>>

\* Lines 654-661: the trade_updated broadcast.
UpdateBroadcast(t) ==
    LET c == call[t]
    IN  /\ c.pc = "u_bcast"
        /\ broadcasts' = Append(broadcasts,
              [type |-> "trade_updated", trade_id |-> c.ret, user_id |-> c.user])
        /\ SetCall(t, [c EXCEPT !.pc = "u_finish"])
        /\ UNCHANGED <<trades, trade_logs, background_tasks, open_trade_locks,
                       callsLeft, faultsLeft>>

\* Lines 663-689: schedule _run_modified_trade_ai, notify, return the row.
UpdateFinish(t) ==
    LET c == call[t]
    IN  /\ c.pc = "u_finish"
        /\ background_tasks' = background_tasks \cup
              {ScoringTask("modified", t, c)}
        /\ SetCall(t, Returned(c, c.ret, "ok"))
        /\ UNCHANGED <<trades, trade_logs, broadcasts, open_trade_locks,
                       callsLeft, faultsLeft>>

\* ------------------------------------------- the callers outside the loop
\* webhook.py 56-59, account.py 612/646, trades.py 214/231: each request is a
\* task of its own calling the processor with the data it was sent.
Idle(t) == call[t].pc \in {"idle", "done"}

\* request tasks are interchangeable: a new request takes the first idle one
FreeTask(t) == Idle(t) /\ (t = "t1" \/ ~Idle("t1"))

ExtOpen(t) ==
    /\ FreeTask(t) /\ callsLeft > 0
    /\ \E u \in Users, e \in ExtIds, p \in EntryPrices, lv \in LevelPairs :
          BeginOpen(t, u, e, p, lv[1], lv[2], "ext")
    /\ callsLeft' = callsLeft - 1
    /\ UNCHANGED <<trades, trade_logs, broadcasts, background_tasks, faultsLeft>>

ExtClose(t) ==
    /\ FreeTask(t) /\ callsLeft > 0
    /\ \E u \in Users, e \in ExtIds, x \in ExitPrices :
          BeginClose(t, u, e, x, 0, "ext")
    /\ callsLeft' = callsLeft - 1
    /\ UNCHANGED <<trades, trade_logs, broadcasts, background_tasks, faultsLeft>>

ExtUpdate(t) ==
    /\ FreeTask(t) /\ callsLeft > 0
    /\ \E u \in Users, e \in ExtIds, lv \in LevelPairs :
          BeginUpdate(t, u, e, lv[1], lv[2], "ext")
    /\ callsLeft' = callsLeft - 1
    /\ UNCHANGED <<trades, trade_logs, broadcasts, background_tasks, faultsLeft>>

\* one step of the call task t is running
CallStep(t) ==
    \/ OpenAcquire(t) \/ OpenSelect(t) \/ OpenCommit(t)
    \/ OpenBroadcast(t) \/ OpenFinish(t)
    \/ CloseSelect(t) \/ CloseCommit(t) \/ CloseStats(t)
    \/ CloseBroadcast(t) \/ CloseFinish(t)
    \/ UpdateSelect(t) \/ UpdateCommit(t) \/ UpdateLog(t)
    \/ UpdateBroadcast(t) \/ UpdateFinish(t)

\* ------------------------------------------- the processor under concurrent callers
\* snapshot_cycles counts the cycles that found a terminal state, modulo
\* reconcile_interval, and raised holds the events of the cycles that raised
\* since the last one that completed; the code keeps neither
IdleLoop == [pc |-> "off", has_logged_initialized |-> FALSE, reconcile_counter |-> 0,
             todo |-> {}, open_trades |-> {}, stale |-> <<>>, after |-> "off",
             snapshot_cycles |-> 0, raised |-> <<>>]

\* no polling loop is running
PollIdle ==
    /\ positions = <<>>
    /\ known_positions = <<>>
    /\ current_positions = <<>>
    /\ loop = IdleLoop
    /\ emitted = <<>>
    /\ movesLeft = 0
    /\ sweepsLeft = 0

IdleConnect == [pc |-> "idle", key |-> <<"u1", "a1">>, state |-> 0, attempt |-> 0,
                exhausted |-> "none", status |-> "none", disconnected |-> FALSE]

IdleDisconnect == [pc |-> "idle", key |-> <<"u1", "a1">>, state |-> 0,
                   status |-> "none"]

\* __init__: no connection registered, nobody connecting
ConnIdle ==
    /\ states = <<>>
    /\ connections = <<>>
    /\ listeners = <<>>
    /\ conn = [t \in ConnTasks \cup {ReconnTask} |-> IdleConnect]
    /\ connectsLeft = 0
    /\ disc = IdleDisconnect
    /\ crashesLeft = 0
    /\ disconnectsLeft = 0

\* the token a socket was opened with names its user (ws.py 137-148)
Owner == [s \in WebSockets |-> IF s = "s3" THEN "u2" ELSE "u1"]

IdleBroadcast == [pc |-> "idle", user |-> "u1",
                  msg |-> [n |-> 0, user |-> "u1"], at_call |-> <<>>,
                  list |-> <<>>, shared |-> FALSE, i |-> 0,
                  dead_connections |-> <<>>, raised |-> FALSE]

\* ws.py 26-27: an empty registry; nobody broadcasting
WsIdle ==
    /\ ws_connections = <<>>
    /\ sockets = [s \in WebSockets |-> "new"]
    /\ received = [s \in WebSockets |-> <<>>]
    /\ bcast = [b \in BcastTasks |-> IdleBroadcast]
    /\ serial = 0
    /\ breaksLeft = 0
    /\ hangsLeft = 0

\* no scoring request is followed
IdleAdvice == [pc |-> "idle", key |-> TRUE, flag_count |-> 0,
               answer |-> [kind |-> "raises"], raised |-> FALSE,
               score |-> <<>>, ai_score |-> <<>>]

\* the auto-reconnect routine is not followed
IdleStartup == [pc |-> "off", sim |-> FALSE, rows |-> <<>>,
                task |-> [t \in {"c1", "c2"} |-> "none"],
                invoked |-> <<>>]

\* no run of the checks is followed
IdleEngine == [pc |-> "idle",
               trade |-> [symbol |-> "EURUSD", direction |-> "BUY",
                          entry_price |-> 0, sl |-> <<>>, tp |-> <<>>],
               rows |-> <<>>, history |-> {}, account |-> "within",
               rules |-> <<>>, alerts |-> <<>>]

\* no open call's checks are followed
IdleFlagged == [pc |-> "idle", fired |-> {}, alerts |-> <<>>,
                behavioral_flags |-> <<>>, row |-> <<>>,
                log_rows |-> <<>>, returned |-> "none"]

IdleCalc == [pc |-> "idle", direction |-> "BUY", entry_price |-> 0,
             raw_exit |-> None, sl |-> None, lot_size |-> 0, broker_pnl |-> None,
             exit_price |-> 0, pnl |-> None, pnl_r |-> None]

\* the MetaAccount rows of the one user
Accounts == <<"a1", "a2">>

\* the account whose connect call and polling loop are followed
LoopAccount == "a1"

IdleBeat == [pc |-> "off", listening |-> FALSE, is_connected |-> FALSE,
             heartbeat_counter |-> 0, cycles |-> 0, returned |-> "none"]

IdleReport == [query |-> "none", account |-> "a1", connected |-> FALSE]

\* no connect call, no loop, no query
BeatIdle ==
    /\ beat = IdleBeat
    /\ mt_last_heartbeat = [a \in Range(Accounts) |-> None]
    /\ now = 0
    /\ report = IdleReport
    /\ beatFaultsLeft = 0
    /\ raisesLeft = 0

\* no row is being computed, no heartbeat is followed
AuxIdle ==
    /\ calc = IdleCalc
    /\ BeatIdle
    /\ stop = "up"
    /\ advice = IdleAdvice
    /\ flagged = IdleFlagged
    /\ engine = IdleEngine
    /\ startup = IdleStartup

Init ==
    /\ trades = <<>>
    /\ trade_logs = <<>>
    /\ broadcasts = <<>>
    /\ background_tasks = {}
    /\ open_trade_locks = <<>>
    /\ call = [t \in Tasks |-> IdleCall]
    /\ callsLeft = MaxCalls
    /\ faultsLeft = MaxFaults
    /\ PollIdle
    /\ ConnIdle
    /\ WsIdle
    /\ AuxIdle

Next ==
    /\ \E t \in ExtTasks : ExtOpen(t) \/ ExtClose(t) \/ ExtUpdate(t) \/ CallStep(t)
    /\ UNCHANGED <<pollVars, connVars, wsVars, auxVars>>

Spec == Init /\ [][Next]_vars

\* ------------------------------------------- the detached scoring tasks
\* task.add_done_callback(self._background_tasks.discard): a task that ends
\* leaves the set.
Discard(k) == background_tasks' = background_tasks \ {k}

\* the task k is suspended at its next await
Advance(k, pc) ==
    background_tasks' = (background_tasks \ {k}) \cup {[k EXCEPT !.pc = pc]}

\* the value of score.score
Scores == {1}

\* Lines 228-288 and 341-375: the context is loaded with every failure
\* swallowed, then the scoring call is awaited; if it raises the task returns.
Analyze(k) ==
    /\ k.kind \in {"pre_trade", "modified"} /\ k.pc = "scheduled"
    /\ \E raised \in BOOLEAN :
          IF raised THEN Discard(k) ELSE Advance(k, "select")
    /\ UNCHANGED <<trades, trade_logs, broadcasts, open_trade_locks, call,
                   callsLeft, faultsLeft>>

\* Lines 294-306: the row is read again; a row that a modification analysis
\* has already written (its analysis nests an open_thesis) is left alone.
PreTradeSelect(k) ==
    /\ k.kind = "pre_trade" /\ k.pc = "select"
    /\ \E f \in FaultChoices :
          /\ SpendFault(f)
          /\ IF f \/ HasOpenThesis(trades[k.trade_id].ai_analysis)
             THEN Discard(k) ELSE Advance(k, "commit")
    /\ UNCHANGED <<trades, trade_logs, broadcasts, open_trade_locks, call,
                   callsLeft>>

\* Lines 308-319: score and analysis are set, the "score_update" entry is
\* added and both are committed; a failure is logged and ends the task.
PreTradeCommit(k) ==
    /\ k.kind = "pre_trade" /\ k.pc = "commit"
    /\ \E f \in FaultChoices, score \in Scores :
          /\ SpendFault(f)
          /\ IF f
             THEN Discard(k) /\ UNCHANGED <<trades, trade_logs>>
             ELSE /\ trades' = [trades EXCEPT ![k.trade_id].ai_score = score,
                                              ![k.trade_id].ai_analysis = <<"pre_trade">>]
                  /\ trade_logs' = Append(trade_logs,
                        [trade_id |-> k.trade_id, event_type |-> "score_update"])
                  /\ Advance(k, "bcast")
    /\ UNCHANGED <<broadcasts, open_trade_locks, call, callsLeft>>

\* Lines 385-387: updated_analysis is the new score's dump, with the given
\* analysis under "open_thesis" when that is not None.
Nested(original_analysis) == <<"modified">> \o original_analysis

\* Lines 378-400: the modification analysis is saved with the analysis the
\* update call saw nested in it as open_thesis, when there was one.
ModifiedCommit(k) ==
    /\ k.kind = "modified" /\ k.pc = "select"
    /\ \E f \in FaultChoices, score \in Scores :
          /\ SpendFault(f)
          /\ IF f
             THEN Discard(k) /\ UNCHANGED <<trades, trade_logs>>
             ELSE /\ trades' = [trades EXCEPT ![k.trade_id].ai_score = score,
                                   ![k.trade_id].ai_analysis =
                                       Nested(k.original_analysis)]
                  /\ trade_logs' = Append(trade_logs,
                        [trade_id |-> k.trade_id, event_type |-> "score_update"])
                  /\ Advance(k, "bcast")
    /\ UNCHANGED <<broadcasts, open_trade_locks, call, callsLeft>>

\* Lines 421-439: the review is computed inside the session, set on the row
\* and committed with its "score_update" entry; any failure ends the task.
PostTradeCommit(k) ==
    /\ k.kind = "post_trade" /\ k.pc = "scheduled"
    /\ \E f \in FaultChoices, raised \in BOOLEAN :
          /\ SpendFault(f)
          /\ IF f \/ raised
             THEN Discard(k) /\ UNCHANGED <<trades, trade_logs>>
             ELSE /\ trades' = [trades EXCEPT ![k.trade_id].ai_review = 1]
                  /\ trade_logs' = Append(trade_logs,
                        [trade_id |-> k.trade_id, event_type |-> "score_update"])
                  /\ Advance(k, "bcast")
    /\ UNCHANGED <<broadcasts, open_trade_locks, call, callsLeft>>

\* Lines 319-329, 402-413, 441-451: the score_update broadcast to the trade's
\* user, after which the task is done.  `trigger` tells the three payloads
\* apart: "modified" is sent as such, "post_trade" is the one with an ai_review.
ScoreBroadcast(k) ==
    /\ k.pc = "bcast"
    /\ broadcasts' = Append(broadcasts,
          [type |-> "score_update", trade_id |-> k.trade_id,
           user_id |-> k.user_id, trigger |-> k.kind])
    /\ Discard(k)
    /\ UNCHANGED <<trades, trade_logs, open_trade_locks, call, callsLeft,
                   faultsLeft>>

\* webhook.py 56-59: the requests about one position, which either user may
\* hold: it is opened with levels, closed at a price, or has its levels removed.
ScoredOpen(t) ==
    /\ FreeTask(t) /\ callsLeft > 0
    /\ \E u \in Users : BeginOpen(t, u, "p1", 1, 1, 2, "ext")
    /\ callsLeft' = callsLeft - 1
    /\ UNCHANGED <<trades, trade_logs, broadcasts, background_tasks, faultsLeft>>

ScoredClose(t) ==
    /\ FreeTask(t) /\ callsLeft > 0
    /\ \E u \in Users : BeginClose(t, u, "p1", 2, 0, "ext")
    /\ callsLeft' = callsLeft - 1
    /\ UNCHANGED <<trades, trade_logs, broadcasts, background_tasks, faultsLeft>>

ScoredUpdate(t) ==
    /\ FreeTask(t) /\ callsLeft > 0
    /\ \E u \in Users : BeginUpdate(t, u, "p1", 0, 0, "ext")
    /\ callsLeft' = callsLeft - 1
    /\ UNCHANGED <<trades, trade_logs, broadcasts, background_tasks, faultsLeft>>

\* the event loop runs one callback: a request, a step of a call, or a step
\* of a scoring task
NextScore ==
    \/ \E t \in ExtTasks : ScoredOpen(t) /\ UNCHANGED <<pollVars, connVars, wsVars, auxVars>>
    \/ \E t \in ExtTasks : ScoredClose(t) /\ UNCHANGED <<pollVars, connVars, wsVars, auxVars>>
    \/ \E t \in ExtTasks : ScoredUpdate(t) /\ UNCHANGED <<pollVars, connVars, wsVars, auxVars>>
    \/ \E t \in ExtTasks : CallStep(t) /\ UNCHANGED <<pollVars, connVars, wsVars, auxVars>>
    \/ \E k \in background_tasks : Analyze(k) /\ UNCHANGED <<pollVars, connVars, wsVars, auxVars>>
    \/ \E k \in background_tasks : PreTradeSelect(k) /\ UNCHANGED <<pollVars, connVars, wsVars, auxVars>>
    \/ \E k \in background_tasks : PreTradeCommit(k) /\ UNCHANGED <<pollVars, connVars, wsVars, auxVars>>
    \/ \E k \in background_tasks : ModifiedCommit(k) /\ UNCHANGED <<pollVars, connVars, wsVars, auxVars>>
    \/ \E k \in background_tasks : PostTradeCommit(k) /\ UNCHANGED <<pollVars, connVars, wsVars, auxVars>>
    \/ \E k \in background_tasks : ScoreBroadcast(k) /\ UNCHANGED <<pollVars, connVars, wsVars, auxVars>>

SpecScore == Init /\ [][NextScore]_vars

\* ------------------------------------------- _listen_for_events: the diff
\* Lines 675-676: ids in the current snapshot that were not in the previous one.
DiffOpened(known, current) == DOMAIN current \ DOMAIN known

\* Lines 686-687: ids of the previous snapshot missing from the current one.
DiffClosed(known, current) == DOMAIN known \ DOMAIN current

\* every id present in both snapshots, changed or not
DiffModifiedAll(known, current) == DOMAIN current \cap DOMAIN known

\* Lines 696-701: ids in both whose stopLoss or takeProfit differ.
DiffModified(known, current) ==
    {p \in DOMAIN current \cap DOMAIN known :
        \/ current[p].stopLoss # known[p].stopLoss
        \/ current[p].takeProfit # known[p].takeProfit}

\* a pass that handles modifications before closes
NextPhaseUpdatesFirst(ph) ==
    CASE ph = "opens" -> "updates"
      [] ph = "updates" -> "closes"
      [] OTHER -> "commit"

\* Lines 673-713: the three loops of a pass follow one another.
NextPhase(ph) ==
    CASE ph = "opens" -> "closes"
      [] ph = "closes" -> "updates"
      [] OTHER -> "commit"

\* what the loop of phase ph iterates over
PhaseTodo(ph) ==
    CASE ph = "opens" -> DiffOpened(known_positions, current_positions)
      [] ph = "closes" -> DiffClosed(known_positions, current_positions)
      [] ph = "updates" -> DiffModified(known_positions, current_positions)
      [] OTHER -> {}

Enter(l, ph) == [l EXCEPT !.pc = ph, !.todo = PhaseTodo(ph)]

\* Lines 605-610: no terminal state yet; sleep and poll again.
PollNoTerminal ==
    /\ loop.pc = "read"
    /\ UNCHANGED <<tpVars, pollVars, connVars, wsVars, auxVars>>

\* Lines 605-615: read the snapshot; the first cycle with a snapshot starts
\* with a reconciliation (lines 618-637).
PollRead ==
    /\ loop.pc = "read"
    /\ current_positions' = positions
    /\ emitted' = <<>>
    /\ LET l == [loop EXCEPT !.snapshot_cycles = (@ + 1) % ReconcileInterval]
       IN loop' = IF loop.has_logged_initialized
                  THEN [l EXCEPT !.pc = "count"]
                  ELSE [l EXCEPT !.pc = "recon_select", !.after = "count"]
    /\ UNCHANGED <<tpVars, positions, known_positions, movesLeft, sweepsLeft>>
    /\ UNCHANGED <<connVars, wsVars, auxVars>>

\* a loop that reconciles in every cycle
PollCountEveryCycle ==
    /\ loop.pc = "count"
    /\ loop' = [loop EXCEPT !.has_logged_initialized = TRUE,
                            !.pc = "recon_select", !.after = "opens",
                            !.reconcile_counter = 0]
    /\ UNCHANGED <<tpVars, positions, known_positions, current_positions,
                   emitted, movesLeft, sweepsLeft>>
    /\ UNCHANGED <<connVars, wsVars, auxVars>>

\* Lines 637-671: has_logged_initialized, then the periodic reconciliation
\* every reconcile_interval cycles (the counter is reset in the finally).
PollCount ==
    /\ loop.pc = "count"
    /\ LET l == [loop EXCEPT !.has_logged_initialized = TRUE]
       IN  loop' = IF loop.reconcile_counter + 1 >= ReconcileInterval
                   THEN [l EXCEPT !.pc = "recon_select", !.after = "opens",
                                  !.reconcile_counter = 0]
                   ELSE Enter([l EXCEPT !.reconcile_counter = @ + 1], "opens")
    /\ UNCHANGED <<tpVars, positions, known_positions, current_positions,
                   emitted, movesLeft, sweepsLeft>>
    /\ UNCHANGED <<connVars, wsVars, auxVars>>

\* a sweep that treats every OPEN trade of the user as stale
StaleAll(ext) == ext # ""

\* Lines 777-778: "if ext_id and ext_id not in current_external_ids"; the ids
\* of ExtIds and Positions carry no surrounding blanks for strip() to remove.
Stale(ext) == ext # "" /\ ext \notin DOMAIN current_positions

\* the external ids of the rows `ids`, in row order, that are stale
RECURSIVE StaleIds(_, _)
StaleIds(i, ids) ==
    IF i > Len(trades) THEN <<>>
    ELSE IF i \in ids /\ Stale(trades[i].external_trade_id)
         THEN <<trades[i].external_trade_id>> \o StaleIds(i + 1, ids)
         ELSE StaleIds(i + 1, ids)

\* Lines 762-779: load the user's OPEN trades and list the stale external ids.
\* The select is not guarded: if it raises, the sweep ends in its caller's
\* except (lines 633, 666).
ReconSelect ==
    LET open_trades == {i \in DOMAIN trades : /\ trades[i].user_id = LoopUser
                                              /\ trades[i].status = "OPEN"}
    IN  /\ loop.pc = "recon_select"
        /\ \E f \in FaultChoices :
             /\ SpendFault(f)
             /\ loop' = IF f THEN Enter(loop, loop.after)
                        ELSE [loop EXCEPT !.pc = "recon_close",
                                          !.open_trades = open_trades,
                                          !.stale = StaleIds(1, open_trades)]
        /\ UNCHANGED <<trades, trade_logs, broadcasts, background_tasks,
                       open_trade_locks, call, callsLeft>>
        /\ UNCHANGED <<positions, known_positions, current_positions, emitted,
                       movesLeft, sweepsLeft>>
        /\ UNCHANGED <<connVars, wsVars, auxVars>>

\* Lines 782-812: one stale id is closed through process_trade_closed, with
\* the close price of its latest closing deal when history has one.
ReconClose ==
    /\ loop.pc = "recon_close" /\ Idle(LoopTask) /\ loop.stale # <<>>
    /\ \E x \in ExitPrices : BeginClose(LoopTask, LoopUser, Head(loop.stale), x, 0, "recon")
    /\ loop' = [loop EXCEPT !.stale = Tail(@)]
    /\ UNCHANGED <<trades, trade_logs, broadcasts, background_tasks,
                   callsLeft, faultsLeft>>
    /\ UNCHANGED <<positions, known_positions, current_positions, emitted,
                   movesLeft, sweepsLeft>>
    /\ UNCHANGED <<connVars, wsVars, auxVars>>

\* Line 814: the sweep returns to the loop.
ReconEnd ==
    /\ loop.pc = "recon_close" /\ Idle(LoopTask) /\ loop.stale = <<>>
    /\ loop' = Enter(loop, loop.after)
    /\ UNCHANGED <<tpVars, positions, known_positions, current_positions,
                   emitted, movesLeft, sweepsLeft>>
    /\ UNCHANGED <<connVars, wsVars, auxVars>>

\* Lines 675-683 and 733-749: a new position is handed to process_trade_opened.
DiffOpen ==
    /\ loop.pc = "opens" /\ Idle(LoopTask)
    /\ \E p \in loop.todo :
         /\ \E entry \in EntryPrices :
               BeginOpen(LoopTask, LoopUser, p, entry,
                         current_positions[p].stopLoss,
                         current_positions[p].takeProfit, "diff")
         /\ loop' = [loop EXCEPT !.todo = @ \ {p}]
         /\ emitted' = Append(emitted, [kind |-> "opened", id |-> p])
    /\ UNCHANGED <<trades, trade_logs, broadcasts, background_tasks,
                   callsLeft, faultsLeft>>
    /\ UNCHANGED <<positions, known_positions, current_positions,
                   movesLeft, sweepsLeft>>
    /\ UNCHANGED <<connVars, wsVars, auxVars>>

\* Lines 686-693 and 816-918: a vanished position is handed to
\* process_trade_closed with the close price of its deal or of the snapshot.
DiffClose ==
    /\ loop.pc = "closes" /\ Idle(LoopTask)
    /\ \E p \in loop.todo :
         /\ \E x \in ExitPrices :
               BeginClose(LoopTask, LoopUser, p, x, known_positions[p].profit, "diff")
         /\ loop' = [loop EXCEPT !.todo = @ \ {p}]
         /\ emitted' = Append(emitted, [kind |-> "closed", id |-> p])
    /\ UNCHANGED <<trades, trade_logs, broadcasts, background_tasks,
                   callsLeft, faultsLeft>>
    /\ UNCHANGED <<positions, known_positions, current_positions,
                   movesLeft, sweepsLeft>>
    /\ UNCHANGED <<connVars, wsVars, auxVars>>

\* Lines 696-711 and 920-943: changed levels are handed to process_trade_updated.
DiffUpdate ==
    /\ loop.pc = "updates" /\ Idle(LoopTask)
    /\ \E p \in loop.todo :
         /\ BeginUpdate(LoopTask, LoopUser, p, current_positions[p].stopLoss,
                        current_positions[p].takeProfit, "diff")
         /\ loop' = [loop EXCEPT !.todo = @ \ {p}]
         /\ emitted' = Append(emitted, [kind |-> "modified", id |-> p])
    /\ UNCHANGED <<trades, trade_logs, broadcasts, background_tasks,
                   callsLeft, faultsLeft>>
    /\ UNCHANGED <<positions, known_positions, current_positions,
                   movesLeft, sweepsLeft>>
    /\ UNCHANGED <<connVars, wsVars, auxVars>>

\* the for loop of a phase is exhausted and its last call has returned
PhaseEnd ==
    /\ loop.pc \in {"opens", "closes", "updates"} /\ Idle(LoopTask)
    /\ loop.todo = {}
    /\ loop' = Enter(loop, NextPhase(loop.pc))
    /\ UNCHANGED <<tpVars, positions, known_positions, current_positions,
                   emitted, movesLeft, sweepsLeft>>
    /\ UNCHANGED <<connVars, wsVars, auxVars>>

\* Lines 713-719: the snapshot is remembered whatever the calls returned;
\* then the loop sleeps a second.
PollCommit ==
    /\ loop.pc = "commit"
    /\ known_positions' = current_positions
    /\ loop' = [loop EXCEPT !.pc = "read", !.raised = <<>>]
    /\ UNCHANGED <<tpVars, positions, current_positions, emitted,
                   movesLeft, sweepsLeft>>
    /\ UNCHANGED <<connVars, wsVars, auxVars>>

\* the loop task runs: a step of the loop or of the call it awaits
LoopNext ==
    \/ PollRead \/ PollCount \/ ReconSelect \/ ReconClose \/ ReconEnd
    \/ DiffOpen \/ DiffClose \/ DiffUpdate \/ PhaseEnd \/ PollCommit
    \/ (CallStep(LoopTask) /\ UNCHANGED <<pollVars, connVars, wsVars, auxVars>>)

\* ------------------------------------------- the broker
\* a position as the terminal reports it: its levels and its profit
Position(lv) == [stopLoss |-> lv[1], takeProfit |-> lv[2], profit |-> 7]

BrokerOpen ==
    /\ movesLeft > 0
    /\ \E p \in Positions \ DOMAIN positions, lv \in LevelPairs :
          positions' = (p :> Position(lv)) @@ positions
    /\ movesLeft' = movesLeft - 1
    /\ UNCHANGED <<tpVars, known_positions, current_positions, loop, emitted,
                   sweepsLeft, connVars, wsVars, auxVars>>

BrokerClose ==
    /\ movesLeft > 0
    /\ \E p \in DOMAIN positions :
          positions' = [q \in DOMAIN positions \ {p} |-> positions[q]]
    /\ movesLeft' = movesLeft - 1
    /\ UNCHANGED <<tpVars, known_positions, current_positions, loop, emitted,
                   sweepsLeft, connVars, wsVars, auxVars>>

BrokerModify ==
    /\ movesLeft > 0
    /\ \E p \in DOMAIN positions, lv \in LevelPairs :
          /\ Position(lv) # positions[p]
          /\ positions' = [positions EXCEPT ![p] = Position(lv)]
    /\ movesLeft' = movesLeft - 1
    /\ UNCHANGED <<tpVars, known_positions, current_positions, loop, emitted,
                   sweepsLeft, connVars, wsVars, auxVars>>

\* ------------------------------------------- one account's polling loop
\* Lines 596-601: the loop's locals as the listener task starts.
InitPoll ==
    /\ trades = <<>>
    /\ trade_logs = <<>>
    /\ broadcasts = <<>>
    /\ background_tasks = {}
    /\ open_trade_locks = <<>>
    /\ call = [t \in Tasks |-> IdleCall]
    /\ callsLeft = 0
    /\ faultsLeft = MaxFaults
    /\ positions = <<>>
    /\ known_positions = <<>>
    /\ current_positions = <<>>
    /\ loop = [IdleLoop EXCEPT !.pc = "read"]
    /\ emitted = <<>>
    /\ movesLeft = MaxMoves
    /\ sweepsLeft = 0
    /\ ConnIdle
    /\ WsIdle
    /\ AuxIdle

NextPoll ==
    \/ LoopNext \/ PollNoTerminal
    \/ BrokerOpen \/ BrokerClose \/ BrokerModify

SpecPoll == InitPoll /\ [][NextPoll]_vars

\* the event loop keeps running the listener task; the broker's moves and
\* the persistence faults are not forced
SpecPollFair == SpecPoll /\ WF_vars(LoopNext)

\* ------------------------------------------- one diff pass on given snapshots
PositionSeq == <<"p1", "p2", "p3">>

\* terminal_state.positions keyed by id (lines 612-615)
Snapshots ==
    UNION {[S -> {Position(lv) : lv \in LevelPairs}] : S \in SUBSET Positions}

\* a row as NewTrade and ClosedRow leave it
Row(u, e, st, sl, tp) ==
    [user_id |-> u, external_trade_id |-> e, status |-> st,
     entry_price |-> 1, sl |-> sl, tp |-> tp,
     exit_price |-> IF st = "CLOSED" THEN 2 ELSE 0,
     pnl |-> IF st = "CLOSED" THEN 10 ELSE 0,
     ai_score |-> 0, ai_analysis |-> None, ai_review |-> 0]

\* the OPEN rows that the opens of the positions of `known` left behind
RECURSIVE RowsOfSnapshot(_, _)
RowsOfSnapshot(known, i) ==
    IF i > Len(PositionSeq) THEN <<>>
    ELSE IF PositionSeq[i] \in DOMAIN known
         THEN <<Row(LoopUser, PositionSeq[i], "OPEN",
                    known[PositionSeq[i]].stopLoss,
                    known[PositionSeq[i]].takeProfit)>>
              \o RowsOfSnapshot(known, i + 1)
         ELSE RowsOfSnapshot(known, i + 1)

RECURSIVE ClosedLogs(_, _)
ClosedLogs(tr, i) ==
    IF i > Len(tr) THEN <<>>
    ELSE IF tr[i].status = "CLOSED"
         THEN <<[trade_id |-> i, event_type |-> "closed"]>> \o ClosedLogs(tr, i + 1)
         ELSE ClosedLogs(tr, i + 1)

\* the audit entries that the opens and closes behind the rows `tr` wrote
LogsOfRows(tr) ==
    [i \in 1..Len(tr) |-> [trade_id |-> i, event_type |-> "opened"]]
    \o ClosedLogs(tr, 1)

\* The loop between two cycles: it remembers some snapshot whose positions
\* were opened, and the terminal holds some other snapshot.
InitDiff ==
    /\ known_positions \in Snapshots
    /\ positions \in Snapshots
    /\ current_positions = known_positions
    /\ trades = RowsOfSnapshot(known_positions, 1)
    /\ trade_logs = LogsOfRows(trades)
    /\ broadcasts = <<>>
    /\ background_tasks = {}
    /\ open_trade_locks = <<>>
    /\ call = [t \in Tasks |-> IdleCall]
    /\ callsLeft = 0
    /\ faultsLeft = MaxFaults
    /\ loop = [IdleLoop EXCEPT !.pc = "read", !.has_logged_initialized = TRUE]
    /\ emitted = <<>>
    /\ movesLeft = 0
    /\ sweepsLeft = 0
    /\ ConnIdle
    /\ WsIdle
    /\ AuxIdle

SpecDiff == InitDiff /\ [][LoopNext]_vars

\* ------------------------------------------- sweeps in a row on one snapshot
SweepSeeds ==
    {<<Row("u1", "p1", "OPEN", 0, 0), Row("u1", "p2", "OPEN", 0, 0),
       Row("u2", "p3", "OPEN", 0, 0)>>,
     <<Row("u1", "p1", "CLOSED", 0, 0), Row("u1", "p1", "OPEN", 0, 0),
       Row("u2", "p1", "OPEN", 0, 0)>>,
     <<Row("u1", "p1", "OPEN", 0, 0), Row("u1", "p2", "OPEN", 0, 0),
       Row("u1", "p3", "OPEN", 0, 0)>>,
     <<Row("u2", "p2", "OPEN", 0, 0), Row("u1", "p2", "CLOSED", 0, 0)>>}

InitSweep ==
    /\ trades \in SweepSeeds
    /\ trade_logs = LogsOfRows(trades)
    /\ broadcasts = <<>>
    /\ background_tasks = {}
    /\ open_trade_locks = <<>>
    /\ call = [t \in Tasks |-> IdleCall]
    /\ callsLeft = 0
    /\ faultsLeft = MaxFaults
    /\ positions \in Snapshots
    /\ current_positions = positions
    /\ known_positions = positions
    /\ loop = [IdleLoop EXCEPT !.pc = "swept", !.after = "swept"]
    /\ emitted = <<>>
    /\ movesLeft = 0
    /\ sweepsLeft = MaxSweeps
    /\ ConnIdle
    /\ WsIdle
    /\ AuxIdle

\* Lines 625 and 658: _reconcile_open_trades_with_terminal is called with the
\* snapshot of the cycle.
SweepStart ==
    /\ loop.pc = "swept" /\ sweepsLeft > 0
    /\ sweepsLeft' = sweepsLeft - 1
    /\ loop' = [loop EXCEPT !.pc = "recon_select"]
    /\ UNCHANGED <<tpVars, positions, known_positions, current_positions,
                   emitted, movesLeft>>
    /\ UNCHANGED <<connVars, wsVars, auxVars>>

NextSweep ==
    \/ SweepStart \/ ReconSelect \/ ReconClose \/ ReconEnd
    \/ (CallStep(LoopTask) /\ UNCHANGED <<pollVars, connVars, wsVars, auxVars>>)

SpecSweep == InitSweep /\ [][NextSweep]_vars

\* ------------------------------------------- connect
\* Lines 27-38: a fresh ConnectionState.
ConnectionState(k) ==
    [key |-> k, is_connected |-> FALSE, connection |-> FALSE, listener_task |-> 0,
     reconnect_attempts |-> 0]

\* Line 299: "conn_key in self._connections and self._connections[conn_key].is_connected"
AlreadyConnected(k) ==
    k \in DOMAIN connections /\ states[connections[k]].is_connected

ConnReturn(t, status) ==
    conn' = [conn EXCEPT ![t] = [@ EXCEPT !.pc = "done", !.status = status,
                                          !.attempt = 0]]

\* "state.is_connected = False" on the caller's own ConnectionState
MarkDown(t) ==
    states' = [states EXCEPT ![conn[t].state].is_connected = FALSE]

\* Lines 291-303: up to the first await.  A key that is registered and
\* connected returns at once; otherwise a new ConnectionState replaces
\* whatever the key held.
ConnectStart(t, k, overtaken) ==
    IF AlreadyConnected(k)
    THEN /\ conn' = [conn EXCEPT ![t] = [IdleConnect EXCEPT !.pc = "done",
                         !.key = k, !.status = "already_connected",
                         !.disconnected = overtaken]]
         /\ UNCHANGED <<states, connections>>
    ELSE /\ states' = Append(states, ConnectionState(k))
         /\ connections' = (k :> (Len(states) + 1)) @@ connections
         /\ conn' = [conn EXCEPT ![t] = [IdleConnect EXCEPT !.pc = "get_api",
                         !.key = k, !.state = Len(states) + 1,
                         !.disconnected = overtaken]]

\* a connect requested from outside: the REST routes and the startup tasks
ConnectBegin(t) ==
    /\ conn[t].pc \in {"idle", "done"} /\ connectsLeft > 0
    /\ t = "c1" \/ conn["c1"].pc # "idle"
    /\ connectsLeft' = connectsLeft - 1
    /\ \E k \in ConnKeys : ConnectStart(t, k, FALSE)
    /\ UNCHANGED <<listeners, disc, crashesLeft, disconnectsLeft, tpVars, pollVars, wsVars, auxVars>>

\* Lines 305-309: without the SDK or a token the account is in simulation mode.
ConnectGetApi(t) ==
    /\ conn[t].pc = "get_api"
    /\ \E available \in BOOLEAN :
         IF available
         THEN /\ conn' = [conn EXCEPT ![t].pc = "get_account"]
              /\ UNCHANGED states
         ELSE /\ ConnReturn(t, "simulation_mode")
              /\ MarkDown(t)
    /\ UNCHANGED <<connections, listeners, connectsLeft, disc, crashesLeft,
                   disconnectsLeft, tpVars, pollVars, wsVars, auxVars>>

\* Lines 313-314 and 478-481: get_account may raise, which ends the call in
\* the outer except.
ConnectGetAccount(t) ==
    /\ conn[t].pc = "get_account"
    /\ \E ok \in BOOLEAN :
         IF ok
         THEN /\ conn' = [conn EXCEPT ![t].pc = "deploy"]
              /\ UNCHANGED states
         ELSE /\ ConnReturn(t, "error")
              /\ MarkDown(t)
    /\ UNCHANGED <<connections, listeners, connectsLeft, disc, crashesLeft,
                   disconnectsLeft, tpVars, pollVars, wsVars, auxVars>>

\* Lines 320-336: an account that is not deployed is deployed with a single
\* call; when that call raises, the failure is logged and connect goes on.
ConnectDeploy(t) ==
    /\ conn[t].pc = "deploy"
    /\ \E outcome \in {"deployed", "ok", "raised"} :
         conn' = [conn EXCEPT ![t].pc = "wait_connected", ![t].attempt = 1,
                              ![t].exhausted = IF outcome = "raised" THEN "deploy"
                                               ELSE "none"]
    /\ UNCHANGED <<states, connections, listeners, connectsLeft, disc,
                   crashesLeft, disconnectsLeft, tpVars, pollVars, wsVars, auxVars>>

\* the call ends because the step it is at has used up its attempts
Exhaust(t) ==
    conn' = [conn EXCEPT ![t] = [@ EXCEPT !.pc = "done", !.status = "connecting",
                                          !.exhausted = conn[t].pc,
                                          !.attempt = 0]]

\* Lines 345-365 and 374-394: wait_connected, then the streaming connect, each
\* tried up to max_retries times; exhausting them returns "connecting".
ConnectLifecycle(t) ==
    LET c == conn[t]
    IN  /\ c.pc \in {"wait_connected", "stream_connect"}
        /\ \E ok \in BOOLEAN :
             IF ok
             THEN /\ conn' = [conn EXCEPT ![t].attempt = 1,
                                  ![t].pc = IF c.pc = "wait_connected"
                                            THEN "stream_connect"
                                            ELSE "wait_synchronized"]
                  /\ UNCHANGED states
             ELSE IF c.attempt < MaxRetries
             THEN /\ conn' = [conn EXCEPT ![t].attempt = @ + 1]
                  /\ UNCHANGED states
             ELSE /\ Exhaust(t)
                  /\ MarkDown(t)
        /\ UNCHANGED <<connections, listeners, connectsLeft, disc, crashesLeft,
                   disconnectsLeft, tpVars, pollVars, wsVars, auxVars>>

\* Lines 400-445: once wait_synchronized succeeds the caller's ConnectionState
\* gets the connection, is marked connected, and a listener task is created
\* for it, with no await in between.
ConnectSynchronized(t) ==
    LET c == conn[t]
        task == Len(listeners) + 1
    IN  /\ c.pc = "wait_synchronized"
        /\ \E ok \in BOOLEAN :
             IF ok
             THEN /\ states' = [states EXCEPT ![c.state] =
                                   [@ EXCEPT !.connection = TRUE,
                                             !.is_connected = TRUE,
                                             !.listener_task = task,
                                             !.reconnect_attempts = 0]]
                  /\ listeners' = Append(listeners,
                                   [key |-> c.key, state |-> c.state,
                                    pc |-> "running", crashed |-> FALSE,
                                    cancelled |-> FALSE,
                                    disconnected |-> c.disconnected])
                  /\ conn' = [conn EXCEPT ![t].pc = "heartbeat"]
             ELSE IF c.attempt < MaxRetries
             THEN /\ conn' = [conn EXCEPT ![t].attempt = @ + 1]
                  /\ UNCHANGED <<states, listeners>>
             ELSE /\ Exhaust(t)
                  /\ MarkDown(t)
                  /\ UNCHANGED listeners
        /\ UNCHANGED <<connections, connectsLeft, disc, crashesLeft,
                       disconnectsLeft, tpVars, pollVars, wsVars, auxVars>>

\* Lines 474-476: _touch_heartbeat catches whatever its session raises (lines
\* 89-112), so the call returns and connect reports the connection.
ConnectHeartbeat(t) ==
    /\ conn[t].pc = "heartbeat"
    /\ ConnReturn(t, "connected")
    /\ UNCHANGED <<states, connections, listeners, connectsLeft, disc, crashesLeft,
                   disconnectsLeft, tpVars, pollVars, wsVars, auxVars>>

\* ------------------------------------------- the listener task failing
\* Lines 723-731: an exception that escapes the polling loop.
ListenerCrash(i) ==
    /\ listeners[i].pc = "running" /\ crashesLeft > 0
    /\ crashesLeft' = crashesLeft - 1
    /\ listeners' = [listeners EXCEPT ![i].pc = "reconnect", ![i].crashed = TRUE]
    /\ UNCHANGED <<states, connections, conn, connectsLeft, disc,
                   disconnectsLeft, tpVars, pollVars, wsVars, auxVars>>

\* Lines 951-970: the state registered for the key gets its counter
\* incremented; beyond max_reconnect_attempts it is marked disconnected and
\* the task ends, otherwise the task sleeps.
HandleReconnection(i) ==
    LET k == listeners[i].key
    IN  /\ listeners[i].pc = "reconnect"
        /\ IF k \notin DOMAIN connections
           THEN /\ listeners' = [listeners EXCEPT ![i].pc = "ended"]
                /\ UNCHANGED states
           ELSE LET sid == connections[k]
                    n == states[sid].reconnect_attempts + 1
                IN  IF n > MaxReconnectAttempts
                    THEN /\ states' = [states EXCEPT ![sid].reconnect_attempts = n,
                                                     ![sid].is_connected = FALSE]
                         /\ listeners' = [listeners EXCEPT ![i].pc = "ended"]
                    ELSE /\ states' = [states EXCEPT ![sid].reconnect_attempts = n]
                         /\ listeners' = [listeners EXCEPT ![i].pc = "backoff"]
        /\ UNCHANGED <<connections, conn, connectsLeft, disc, crashesLeft,
                       disconnectsLeft, tpVars, pollVars, wsVars, auxVars>>

\* Lines 971-979 and 291-303: after the sleep the user is loaded and connect
\* is called from the same task.
ReconnectConnect(i) ==
    /\ listeners[i].pc = "backoff"
    /\ conn[ReconnTask].pc \in {"idle", "done"}
    /\ \A j \in DOMAIN listeners : listeners[j].pc # "connect"
    /\ ConnectStart(ReconnTask, listeners[i].key, listeners[i].disconnected)
    /\ listeners' = [listeners EXCEPT ![i].pc = "connect"]
    /\ UNCHANGED <<connectsLeft, disc, crashesLeft, disconnectsLeft,
                   tpVars, pollVars, wsVars, auxVars>>

\* Line 979: connect has returned, and with it the task.
ReconnectReturn(i) ==
    /\ listeners[i].pc = "connect"
    /\ conn[ReconnTask].pc = "done"
    /\ listeners' = [listeners EXCEPT ![i].pc = "ended"]
    /\ UNCHANGED <<states, connections, conn, connectsLeft, disc, crashesLeft,
                   disconnectsLeft, tpVars, pollVars, wsVars, auxVars>>

\* ------------------------------------------- disconnect
\* Lines 536-543: the state that disconnect looked up is marked disconnected
\* and whatever the key holds by now is deleted.  When the call returns,
\* every listener task of the key that is still alive, and every connect
\* call of the key that is still in progress, has been overtaken by it.
DisconnectReturn(k, sid, sts, lst, cn) ==
    /\ states' = [sts EXCEPT ![sid].is_connected = FALSE]
    /\ connections' = [q \in DOMAIN connections \ {k} |-> connections[q]]
    /\ disc' = [pc |-> "done", key |-> k, state |-> sid, status |-> "disconnected"]
    /\ listeners' = [i \in DOMAIN lst |->
                        IF lst[i].key = k /\ lst[i].pc # "ended"
                        THEN [lst[i] EXCEPT !.disconnected = TRUE] ELSE lst[i]]
    /\ conn' = [t \in DOMAIN cn |->
                   IF cn[t].key = k /\ cn[t].pc \notin {"idle", "done"}
                   THEN [cn[t] EXCEPT !.disconnected = TRUE] ELSE cn[t]]

\* Lines 506-511: listener_task.cancel() and await: the task ends at the
\* await it is suspended in, and so does a connect call it is running.
Cancelled(lst, lt) == [lst EXCEPT ![lt].pc = "ended", ![lt].cancelled = TRUE]

\* Lines 492-511: look the state up, cancel its listener task and wait for
\* it.  A state without a connection has nothing to close (and undeploy is
\* off by default), so the call finishes without suspending.
DisconnectBegin ==
    /\ disc.pc \in {"idle", "done"} /\ disconnectsLeft > 0
    /\ disconnectsLeft' = disconnectsLeft - 1
    /\ \E k \in ConnKeys :
         IF k \notin DOMAIN connections
         THEN /\ disc' = [pc |-> "done", key |-> k, state |-> 0,
                          status |-> "was_not_connected"]
              /\ UNCHANGED <<states, connections, listeners, conn>>
         ELSE LET sid == connections[k]
                  lt == states[sid].listener_task
                  cancel == lt # 0 /\ listeners[lt].pc # "ended"
                  lst == IF cancel THEN Cancelled(listeners, lt) ELSE listeners
                  cn == IF cancel /\ listeners[lt].pc = "connect"
                              /\ conn[ReconnTask].pc # "done"
                        THEN [conn EXCEPT ![ReconnTask].pc = "done",
                                          ![ReconnTask].status = "cancelled"]
                        ELSE conn
              IN  IF states[sid].connection
                  THEN /\ disc' = [pc |-> "close", key |-> k, state |-> sid,
                                   status |-> "none"]
                       /\ listeners' = lst
                       /\ conn' = cn
                       /\ UNCHANGED <<states, connections>>
                  ELSE DisconnectReturn(k, sid, states, lst, cn)
    /\ UNCHANGED <<connectsLeft, crashesLeft, tpVars, pollVars, wsVars, auxVars>>

\* Lines 513-543: connection.close() has been awaited.
DisconnectFinish ==
    /\ disc.pc = "close"
    /\ DisconnectReturn(disc.key, disc.state, states, listeners, conn)
    /\ UNCHANGED <<connectsLeft, crashesLeft, disconnectsLeft, tpVars, pollVars, wsVars, auxVars>>

\* ------------------------------------------- concurrent connect calls
\* Explicit connects (api/account.py), the startup auto-reconnect tasks (line
\* 257) and _handle_reconnection (line 979) each call connect() from a task
\* of their own.
InitConn ==
    /\ trades = <<>>
    /\ trade_logs = <<>>
    /\ broadcasts = <<>>
    /\ background_tasks = {}
    /\ open_trade_locks = <<>>
    /\ call = [t \in Tasks |-> IdleCall]
    /\ callsLeft = 0
    /\ faultsLeft = 0
    /\ PollIdle
    /\ states = <<>>
    /\ connections = <<>>
    /\ listeners = <<>>
    /\ conn = [t \in ConnTasks \cup {ReconnTask} |-> IdleConnect]
    /\ connectsLeft = MaxConnects
    /\ disc = IdleDisconnect
    /\ crashesLeft = MaxCrashes
    /\ disconnectsLeft = MaxDisconnects
    /\ WsIdle
    /\ AuxIdle

NextConn ==
    \/ \E t \in ConnTasks : ConnectBegin(t)
    \/ \E t \in DOMAIN conn : ConnectGetApi(t)
    \/ \E t \in DOMAIN conn : ConnectGetAccount(t)
    \/ \E t \in DOMAIN conn : ConnectDeploy(t)
    \/ \E t \in DOMAIN conn : ConnectLifecycle(t)
    \/ \E t \in DOMAIN conn : ConnectSynchronized(t)
    \/ \E t \in DOMAIN conn : ConnectHeartbeat(t)
    \/ \E i \in DOMAIN listeners : ListenerCrash(i)
    \/ \E i \in DOMAIN listeners : HandleReconnection(i)
    \/ \E i \in DOMAIN listeners : ReconnectConnect(i)
    \/ \E i \in DOMAIN listeners : ReconnectReturn(i)
    \/ DisconnectBegin \/ DisconnectFinish

SpecConn == InitConn /\ [][NextConn]_vars

\* ================================================================ claims
\* what the claims mean by "an OPEN row of (user, external id)" in a table
OpenIn(tr, u, e) ==
    {i \in DOMAIN tr : /\ tr[i].user_id = u
                       /\ tr[i].external_trade_id = e
                       /\ tr[i].status = "OPEN"}

Entries(log, rec) == {j \in DOMAIN log : log[j] = rec}

NothingWritten == UNCHANGED <<trades, trade_logs, broadcasts, background_tasks>>

\* C1: in every reachable state there is at most one Trade row with status
\* OPEN for a given (user, external position id), whatever the interleaving
\* of opened, closed and updated calls.
C1_AtMostOneOpenRow ==
    \A u \in Users, e \in ExtIds : Cardinality(OpenIn(trades, u, e)) <= 1

\* an opened call waits for the lock of a key whose row has been committed
C1_Witness ==
    \E t \in Tasks : /\ call[t].pc = "o_wait"
                     /\ OpenIn(trades, call[t].user, call[t].ext) # {}

\* C2: an opened call whose duplicate check runs while an OPEN row of its key
\* exists ends there: it returns that row (None if the lookup itself raised),
\* leaves exactly one OPEN row, and writes no Trade row, no audit entry, no
\* broadcast and no scoring task.
C2_DuplicateOpenIsNoOp ==
    [][\A t \in Tasks :
          LET c == call[t]
              d == call'[t]
              rows == OpenIn(trades, c.user, c.ext)
          IN  (c.pc = "o_select" /\ rows # {} /\ d # c) =>
                 /\ d.pc = "done"
                 /\ \/ d.outcome = "dup" /\ d.ret \in rows
                    \/ d.outcome = "dberr" /\ d.ret = 0
                 /\ Cardinality(OpenIn(trades', c.user, c.ext)) = 1
                 /\ NothingWritten]_vars

\* the second opened call has returned the row the first one created
C2_Witness ==
    \E t \in Tasks : /\ call[t].pc = "done" /\ call[t].op = "open"
                     /\ call[t].outcome = "dup"
                     /\ call[t].ret \in OpenIn(trades, call[t].user, call[t].ext)

\* C3: however close events of one (user, external id) overlap, a trade gets
\* at most one 'closed' audit entry and at most one trade-closed broadcast.
C3_AtMostOneCloseTransition ==
    \A i \in DOMAIN trades :
       /\ Cardinality(Entries(trade_logs,
             [trade_id |-> i, event_type |-> "closed"])) <= 1
       /\ Cardinality(Entries(broadcasts,
             [type |-> "trade_closed", trade_id |-> i,
              user_id |-> trades[i].user_id])) <= 1

\* C4: a closed call for an external id with no OPEN row of that user (never
\* opened, already closed, or missing) returns None and writes nothing.
C4_CloseWithoutOpenIsNoOp ==
    [][\A t \in Tasks :
          LET c == call[t]
              d == call'[t]
          IN  /\ (c.pc = "c_select" /\ OpenIn(trades, c.user, c.ext) = {} /\ d # c) =>
                    (d.pc = "done" /\ d.ret = 0 /\ ~d.persisted /\ NothingWritten)
              /\ (c.pc \in {"idle", "done"} /\ d # c /\ d.op = "close" /\ d.ext = "") =>
                    (d.pc = "done" /\ d.ret = 0 /\ ~d.persisted /\ NothingWritten)]_vars

\* a closed call has returned None for a trade that was closed before
C4_Witness ==
    \E t \in Tasks :
       /\ call[t].pc = "done" /\ call[t].op = "close" /\ call[t].outcome = "noopen"
       /\ \E i \in DOMAIN trades : /\ trades[i].user_id = call[t].user
                                   /\ trades[i].external_trade_id = call[t].ext
                                   /\ trades[i].status = "CLOSED"

\* C8: a call that returns None because a persistence step raised has
\* persisted nothing: no Trade row created or changed, no audit entry.
C8_FailureMeansRolledBack ==
    \A t \in Tasks :
       (call[t].pc = "done" /\ call[t].outcome = "dberr") => ~call[t].persisted


\* ids handed to the Trade Processor with the given kind in the current pass
EmittedIds(kind) ==
    {emitted[i].id : i \in {j \in DOMAIN emitted : emitted[j].kind = kind}}

InDiffPass == loop.pc \in {"opens", "closes", "updates", "commit"}

ClosedLogCount(i) ==
    Cardinality({n \in DOMAIN trade_logs : /\ trade_logs[n].trade_id = i
                                           /\ trade_logs[n].event_type = "closed"})

\* C5: when a sweep has run with persistence working, every trade of the user
\* that it found OPEN is CLOSED if its external id is absent from the snapshot
\* and still OPEN if it is present; a further sweep on the same snapshot finds
\* no stale trade; no trade ever has more than one "closed" audit entry.
C5_SweepClosesStaleOnce ==
    /\ \A i \in DOMAIN trades : ClosedLogCount(i) <= 1
    /\ (loop.pc = "swept" /\ sweepsLeft < MaxSweeps /\ faultsLeft = MaxFaults) =>
          /\ \A i \in loop.open_trades :
                /\ trades[i].external_trade_id \notin DOMAIN current_positions
                      => trades[i].status = "CLOSED" /\ ClosedLogCount(i) = 1
                /\ trades[i].external_trade_id \in DOMAIN current_positions
                      => trades[i].status = "OPEN" /\ ClosedLogCount(i) = 0
          /\ \A i \in DOMAIN trades :
                (trades[i].user_id = LoopUser /\ trades[i].status = "OPEN")
                   => trades[i].external_trade_id \in DOMAIN current_positions
          /\ sweepsLeft < MaxSweeps - 1 =>
                \A i \in loop.open_trades :
                   trades[i].external_trade_id \in DOMAIN current_positions

\* two sweeps have run; the first closed a stale trade and left one that is
\* present in the snapshot OPEN
C5_Witness ==
    /\ loop.pc = "swept" /\ sweepsLeft = MaxSweeps - 2 /\ faultsLeft = MaxFaults
    /\ \E i, j \in DOMAIN trades :
          /\ trades[i].user_id = LoopUser /\ trades[i].status = "CLOSED"
          /\ trades[i].external_trade_id \notin DOMAIN current_positions
          /\ ClosedLogCount(i) = 1 /\ trades[i].exit_price = 1
          /\ trades[j].user_id = LoopUser /\ trades[j].status = "OPEN"
          /\ trades[j].external_trade_id \in DOMAIN current_positions

\* C6: during a pass the ids emitted as opened, closed and modified are
\* pairwise disjoint, opened ids are in the current snapshot only, closed ids
\* in the previous one only, modified ids in both with a different stop-loss
\* or take-profit, and all of them are ids of one of the two snapshots; when
\* the pass is over, opened and closed are exactly the two differences.
C6_DiffSetsPartition ==
    LET O == EmittedIds("opened")
        C == EmittedIds("closed")
        M == EmittedIds("modified")
        prev == DOMAIN known_positions
        cur == DOMAIN current_positions
    IN  InDiffPass =>
          /\ O \cap C = {} /\ O \cap M = {} /\ C \cap M = {}
          /\ O \subseteq cur \ prev
          /\ C \subseteq prev \ cur
          /\ \A p \in M :
                /\ p \in prev \cap cur
                /\ \/ current_positions[p].stopLoss # known_positions[p].stopLoss
                   \/ current_positions[p].takeProfit # known_positions[p].takeProfit
          /\ O \cup C \cup M \subseteq prev \cup cur
          /\ loop.pc = "commit" => O = cur \ prev /\ C = prev \ cur

\* a finished pass that emitted all three kinds
C6_Witness ==
    /\ loop.pc = "commit"
    /\ EmittedIds("opened") # {}
    /\ EmittedIds("closed") # {}
    /\ EmittedIds("modified") # {}

KindRank(kind) ==
    CASE kind = "opened" -> 1
      [] kind = "closed" -> 2
      [] OTHER -> 3

\* C7: in the sequence of events that a pass hands to the Trade Processor no
\* closed event precedes an opened one and no modified event precedes an
\* opened or a closed one.
C7_OpensThenClosesThenModifies ==
    \A i, j \in DOMAIN emitted :
        i < j => KindRank(emitted[i].kind) <= KindRank(emitted[j].kind)

\* a pass that handed over an opened, then a closed, then a modified event
C7_Witness ==
    \E i, j, k \in DOMAIN emitted :
        /\ i < j /\ j < k
        /\ emitted[i].kind = "opened"
        /\ emitted[j].kind = "closed"
        /\ emitted[k].kind = "modified"

\* the open that the loop handed over for position p came back None because a
\* persistence step raised
FailedOpen(p) ==
    LET c == call[LoopTask]
    IN  /\ c.pc = "done" /\ c.op = "open" /\ c.src = "diff"
        /\ c.outcome = "dberr" /\ c.ext = p

\* C9: after a failed open of a streamed position, either the position gets
\* its OPEN row or it is closed at the broker first.
C9_FailedOpenIsRedelivered ==
    \A p \in Positions :
        FailedOpen(p) ~> (\/ OpenIn(trades, LoopUser, p) # {}
                          \/ p \notin DOMAIN positions)


\* listener tasks of key k that have not finished
LiveListeners(k) ==
    {i \in DOMAIN listeners : listeners[i].key = k /\ listeners[i].pc # "ended"}

\* C10: no account ever has two live polling-loop tasks.
C10_AtMostOneListenerPerAccount ==
    \A k \in ConnKeys : Cardinality(LiveListeners(k)) <= 1


\* C11: no step is attempted more than max_retries times, and a connect call
\* in which a lifecycle step (deploy, wait_connected, the streaming connect,
\* wait_synchronized) has used up its attempts creates no listener task and
\* returns status "connecting" with its ConnectionState not connected.
C11_ExhaustedStepMeansConnecting ==
    \A t \in DOMAIN conn :
        LET c == conn[t]
        IN  /\ c.attempt <= MaxRetries
            /\ c.exhausted # "none" =>
                  /\ c.pc # "heartbeat"
                  /\ states[c.state].listener_task = 0
                  /\ c.pc = "done" => /\ c.status = "connecting"
                                      /\ ~states[c.state].is_connected


\* a connect call for key k that was requested from outside is in progress
ExplicitConnectInProgress(k) ==
    \E t \in ConnTasks : conn[t].key = k /\ conn[t].pc \notin {"idle", "done"}

\* C12: when the reconnection routine of a failed listener task has ended
\* and the account is still registered, either a listener task of the
\* account is alive (polling, or in a reconnection of its own), or the
\* registered state's attempt counter has passed max_reconnect_attempts, or
\* a connect requested from outside is under way.
C12_ReconnectsUntilRunningOrGivenUp ==
    \A i \in DOMAIN listeners :
        LET k == listeners[i].key
        IN  (/\ listeners[i].crashed /\ listeners[i].pc = "ended"
             /\ ~listeners[i].cancelled /\ ~listeners[i].disconnected
             /\ k \in DOMAIN connections) =>
               \/ LiveListeners(k) # {}
               \/ states[connections[k]].reconnect_attempts > MaxReconnectAttempts
               \/ ExplicitConnectInProgress(k)

\* C13: no listener task that a returned disconnect of its account has
\* overtaken is alive: neither one that was alive when the disconnect
\* returned, nor one created later by a connect call that was already in
\* progress then.
C13_NoListenerAfterDisconnect ==
    \A i \in DOMAIN listeners :
        listeners[i].disconnected => listeners[i].pc = "ended"

\* ------------------------------------------- C14, C15: opening and scoring
\* positions in broadcasts of the trade_opened events for trade id
OpenedAt(id) ==
    {j \in DOMAIN broadcasts : /\ broadcasts[j].type = "trade_opened"
                               /\ broadcasts[j].trade_id = id}

\* the scoring tasks that the open call of trade id scheduled
PreTradeTasks(id) ==
    {k \in background_tasks : k.kind = "pre_trade" /\ k.trade_id = id}

C15_ScoredOnReturn ==
    [][\A t \in DOMAIN call :
          (/\ call[t].pc = "o_finish"
           /\ call'[t].pc = "done" /\ call'[t].outcome = "ok") =>
              /\ ReturnedTrade(call'[t]).ai_score # 0
              /\ trades'[call'[t].ret].ai_score # 0]_vars

\* ------------------------------------------- C16: the P&L of a streamed close
\* C16, as stated: when a diff pass is over, every position that was in the
\* previous snapshot with a profit and is missing from the current one has
\* its CLOSED trades carrying that profit as P&L, whether or not the
\* reconciliation sweep ran in the cycle.
C16_BrokerPnlStored ==
    loop.pc = "commit" =>
        \A p \in DiffClosed(known_positions, current_positions) :
            \A i \in RowsOfAnyStatus(LoopUser, p) :
                trades[i].status = "CLOSED" =>
                    trades[i].pnl = known_positions[p].profit

\* ------------------------------------------- WebSocketManager (api/ws.py)
\* a cleanup that drops every socket of the list
WithoutAny(list, ws) == <<>>

\* Lines 50-52, 78-80: [w for w in list if w != ws], a new list object
Without(list, ws) == SelectSeq(list, LAMBDA w : w # ws)

\* Lines 77-80: the loop over dead_connections
RECURSIVE WithoutAll(_, _)
WithoutAll(list, dead) ==
    IF dead = <<>> THEN list
    ELSE WithoutAll(Without(list, Head(dead)), Tail(dead))

\* a broadcast that looks at every user's list
TargetsOfAll(u) ==
    IF DOMAIN ws_connections = {} THEN <<>>
    ELSE LET RECURSIVE Cat(_)
             Cat(S) == IF S = {} THEN <<>>
                       ELSE LET v == CHOOSE x \in S : TRUE
                            IN  ws_connections[v] \o Cat(S \ {v})
         IN  Cat(DOMAIN ws_connections)

\* Lines 64-70: the list object the for loop iterates, none when the user
\* has no key
Targets(u) ==
    IF u \in DOMAIN ws_connections THEN ws_connections[u] ELSE <<>>

\* Lines 50-54, 78-83: the user's key bound to a new list, and deleted when
\* that list is empty
Rebound(u, list) ==
    IF list = <<>>
    THEN [v \in DOMAIN ws_connections \ {u} |-> ws_connections[v]]
    ELSE (u :> list) @@ ws_connections

\* a for loop that was iterating the user's list keeps the old list object
\* once the key is bound to a new one
Unshared(u) ==
    [b \in BcastTasks |->
        IF bcast[b].user = u THEN [bcast[b] EXCEPT !.shared = FALSE]
        ELSE bcast[b]]

\* Lines 29-40: accept, then append to the user's list in place (a loop
\* iterating that very list will reach the new socket) or create the list.
WsConnect(s) ==
    LET u == Owner[s]
    IN  /\ sockets[s] = "new"
        /\ sockets' = [sockets EXCEPT ![s] = "open"]
        /\ IF u \in DOMAIN ws_connections
           THEN /\ ws_connections' = [ws_connections EXCEPT ![u] = Append(@, s)]
                /\ bcast' = [b \in BcastTasks |->
                      IF bcast[b].user = u /\ bcast[b].shared
                      THEN [bcast[b] EXCEPT !.list = Append(@, s)]
                      ELSE bcast[b]]
           ELSE /\ ws_connections' = (u :> <<s>>) @@ ws_connections
                /\ UNCHANGED bcast
        /\ UNCHANGED <<received, serial, breaksLeft, hangsLeft>>
        /\ UNCHANGED <<tpVars, pollVars, connVars, auxVars>>

\* the client goes away: from now on send_text raises and the endpoint's
\* receive_text raises WebSocketDisconnect (lines 160-170)
ClientGone(s) ==
    /\ sockets[s] = "open" /\ breaksLeft > 0
    /\ sockets' = [sockets EXCEPT ![s] = "gone"]
    /\ breaksLeft' = breaksLeft - 1
    /\ UNCHANGED <<ws_connections, received, bcast, serial, hangsLeft>>
    /\ UNCHANGED <<tpVars, pollVars, connVars, auxVars>>

\* the client stops reading: a send_text to it does not complete
ClientStalls(s) ==
    /\ sockets[s] = "open" /\ hangsLeft > 0
    /\ sockets' = [sockets EXCEPT ![s] = "stalled"]
    /\ hangsLeft' = hangsLeft - 1
    /\ UNCHANGED <<ws_connections, received, bcast, serial, breaksLeft>>
    /\ UNCHANGED <<tpVars, pollVars, connVars, auxVars>>

\* Lines 42-55 and 174-175: the endpoint's finally unregisters the socket.
WsDisconnect(s) ==
    LET u == Owner[s]
    IN  /\ sockets[s] = "gone"
        /\ sockets' = [sockets EXCEPT ![s] = "closed"]
        /\ IF u \in DOMAIN ws_connections
           THEN /\ ws_connections' = Rebound(u, Without(ws_connections[u], s))
                /\ bcast' = Unshared(u)
           ELSE UNCHANGED <<ws_connections, bcast>>
        /\ UNCHANGED <<received, serial, breaksLeft, hangsLeft>>
        /\ UNCHANGED <<tpVars, pollVars, connVars, auxVars>>

\* trade_processing_service.py 175-216: the processor awaits the broadcast
\* inside its try; if it raises, the except branch returns None
CallerResult(r) == IF r.raised THEN "None" ELSE "trade"

\* Lines 64-68: no key, no work; otherwise the loop starts on the user's list.
BroadcastBegin(b, u) ==
    LET m == [n |-> serial + 1, user |-> u]
        r == [IdleBroadcast EXCEPT !.user = u, !.msg = m, !.at_call = Targets(u)]
    IN  /\ bcast[b].pc \in {"idle", "done"} /\ serial < MaxBroadcasts
        /\ serial' = serial + 1
        /\ bcast' = [bcast EXCEPT ![b] =
              IF u \notin DOMAIN ws_connections
              THEN [r EXCEPT !.pc = "done"]
              ELSE [r EXCEPT !.pc = "send", !.list = Targets(u),
                             !.shared = TRUE, !.i = 1]]
        /\ UNCHANGED <<ws_connections, sockets, received, breaksLeft, hangsLeft>>
        /\ UNCHANGED <<tpVars, pollVars, connVars, auxVars>>

\* Lines 70-75: one awaited send_text; an exception puts the socket on the
\* dead list and the loop goes on.  A send to a stalled socket stays pending.
BroadcastSend(b) ==
    LET r == bcast[b]
        ws == r.list[r.i]
    IN  /\ r.pc = "send" /\ r.i <= Len(r.list)
        /\ sockets[ws] # "stalled"
        /\ IF sockets[ws] = "open"
           THEN /\ received' = [received EXCEPT ![ws] = Append(@, r.msg)]
                /\ bcast' = [bcast EXCEPT ![b].i = r.i + 1]
           ELSE /\ bcast' = [bcast EXCEPT ![b].i = r.i + 1,
                        ![b].dead_connections = Append(@, ws)]
                /\ UNCHANGED received
        /\ UNCHANGED <<ws_connections, sockets, serial, breaksLeft, hangsLeft>>
        /\ UNCHANGED <<tpVars, pollVars, connVars, auxVars>>

\* Lines 77-83: the dead sockets are filtered out of the user's current list,
\* looked up by key each time (KeyError when the key is gone), and an empty
\* list is deleted.  Nothing is awaited here.
BroadcastCleanup(b) ==
    LET r == bcast[b]
        u == r.user
        done == [r EXCEPT !.pc = "done", !.shared = FALSE]
    IN  /\ r.pc = "send" /\ r.i > Len(r.list)
        /\ IF r.dead_connections = <<>>
           THEN /\ bcast' = [bcast EXCEPT ![b] = done]
                /\ UNCHANGED ws_connections
           ELSE IF u \notin DOMAIN ws_connections
           THEN /\ bcast' = [bcast EXCEPT ![b] = [done EXCEPT !.raised = TRUE]]
                /\ UNCHANGED ws_connections
           ELSE /\ ws_connections' =
                      Rebound(u, WithoutAll(ws_connections[u], r.dead_connections))
                /\ bcast' = [Unshared(u) EXCEPT ![b] = done]
        /\ UNCHANGED <<sockets, received, serial, breaksLeft, hangsLeft>>
        /\ UNCHANGED <<tpVars, pollVars, connVars, auxVars>>

\* the broadcaster with clients coming and going
InitWs ==
    /\ trades = <<>>
    /\ trade_logs = <<>>
    /\ broadcasts = <<>>
    /\ background_tasks = {}
    /\ open_trade_locks = <<>>
    /\ call = [t \in Tasks |-> IdleCall]
    /\ callsLeft = 0
    /\ faultsLeft = 0
    /\ PollIdle
    /\ ConnIdle
    /\ ws_connections = <<>>
    /\ sockets = [s \in WebSockets |-> "new"]
    /\ received = [s \in WebSockets |-> <<>>]
    /\ bcast = [b \in BcastTasks |-> IdleBroadcast]
    /\ serial = 0
    /\ breaksLeft = MaxBreaks
    /\ hangsLeft = MaxHangs
    /\ AuxIdle

NextWs ==
    \/ \E s \in WebSockets : WsConnect(s)
    \/ \E s \in WebSockets : ClientGone(s)
    \/ \E s \in WebSockets : ClientStalls(s)
    \/ \E s \in WebSockets : WsDisconnect(s)
    \/ \E b \in BcastTasks, u \in Users : BroadcastBegin(b, u)
    \/ \E b \in BcastTasks : BroadcastSend(b)
    \/ \E b \in BcastTasks : BroadcastCleanup(b)

SpecWs == InitWs /\ [][NextWs]_vars

\* the event loop runs every task that is ready: a send that can complete
\* does, and a loop that has ended goes on to its cleanup
SpecWsFair ==
    SpecWs /\ \A b \in BcastTasks : WF_vars(BroadcastSend(b) \/ BroadcastCleanup(b))

\* Line 72 on one socket: the socket this loop is waiting on is not awaited,
\* in a call made earlier, by another loop.  Sends awaited on one socket
\* complete in the order in which they were started.
HeadOfLine(b) ==
    LET r == bcast[b]
    IN  /\ r.pc = "send" /\ r.i <= Len(r.list)
        /\ \A o \in BcastTasks \ {b} :
              ~ /\ bcast[o].pc = "send" /\ bcast[o].i <= Len(bcast[o].list)
                /\ bcast[o].list[bcast[o].i] = r.list[r.i]
                /\ bcast[o].msg.n < r.msg.n

\* Lines 70-75 with the sends on one socket completing in turn
SendInTurn(b) == HeadOfLine(b) /\ BroadcastSend(b)

NextWsInTurn ==
    \/ \E s \in WebSockets : WsConnect(s)
    \/ \E s \in WebSockets : ClientGone(s)
    \/ \E s \in WebSockets : ClientStalls(s)
    \/ \E s \in WebSockets : WsDisconnect(s)
    \/ \E b \in BcastTasks, u \in Users : BroadcastBegin(b, u)
    \/ \E b \in BcastTasks : SendInTurn(b)
    \/ \E b \in BcastTasks : BroadcastCleanup(b)

\* the broadcaster when no send overtakes another on the same socket
SpecWsInTurn == InitWs /\ [][NextWsInTurn]_vars

\* ------------------------------------------- C17..C20: the broadcaster
\* the sockets that hold message m
Holders(m) == {ws \in WebSockets : m \in Range(received[ws])}

\* C17: when broadcast_to_user(u, m) ends, every socket that was registered
\* for u when it was called has been sent m (it holds m, or its own send
\* raised); no socket ever holds a message addressed to another user; and a
\* call for a user without a key returns at once, having sent nothing and
\* changed neither the registry nor any socket.
C17_BroadcastReachesUsersSockets ==
    [][/\ \A b \in BcastTasks :
            (bcast[b].pc = "send" /\ bcast'[b].pc = "done") =>
                \A ws \in Range(bcast[b].at_call) :
                    \/ bcast[b].msg \in Range(received'[ws])
                    \/ ws \in Range(bcast[b].dead_connections)
       /\ \A ws \in WebSockets :
            \A k \in DOMAIN received'[ws] : received'[ws][k].user = Owner[ws]
       /\ \A b \in BcastTasks :
            (/\ serial' = serial + 1
             /\ bcast'[b].msg.n = serial'
             /\ bcast'[b].user \notin DOMAIN ws_connections) =>
                /\ bcast'[b].pc = "done" /\ ~bcast'[b].raised
                /\ UNCHANGED <<ws_connections, sockets, received>>
      ]_vars

\* a finished broadcast that reached both sockets of its user while another
\* user's socket, registered and open, got nothing
C17_Witness ==
    \E b \in BcastTasks :
        /\ bcast[b].pc = "done"
        /\ Len(bcast[b].at_call) = 2
        /\ Holders(bcast[b].msg) = Range(bcast[b].at_call)
        /\ \E s \in WebSockets :
              /\ Owner[s] # bcast[b].user
              /\ sockets[s] = "open"
              /\ s \in Range(Targets(Owner[s]))

\* C18: at the end of a broadcast in which sends failed, every socket of the
\* loop whose send did not fail holds the message, the user's list is what
\* it was without the failed sockets (no list when none is left), and the
\* other users' lists are as they were.
C18_FailedDeliveryDropsOnlyThatSocket ==
    [][\A b \in BcastTasks :
          (/\ bcast[b].pc = "send" /\ bcast'[b].pc = "done"
           /\ bcast[b].dead_connections # <<>>) =>
              LET r == bcast[b]
                  dead == Range(r.dead_connections)
                  after == IF r.user \in DOMAIN ws_connections'
                           THEN ws_connections'[r.user] ELSE <<>>
              IN  /\ \A ws \in Range(r.list) \ dead : r.msg \in Range(received'[ws])
                  /\ after = SelectSeq(Targets(r.user), LAMBDA w : w \notin dead)
                  /\ \A v \in Users \ {r.user} :
                        /\ (v \in DOMAIN ws_connections') = (v \in DOMAIN ws_connections)
                        /\ v \in DOMAIN ws_connections =>
                              ws_connections'[v] = ws_connections[v]
      ]_vars

\* a finished broadcast whose first send failed and whose second socket got
\* the message and is still registered
C18_Witness ==
    \E b \in BcastTasks :
        /\ bcast[b].pc = "done" /\ ~bcast[b].raised
        /\ Len(bcast[b].at_call) = 2
        /\ bcast[b].dead_connections = <<bcast[b].at_call[1]>>
        /\ bcast[b].msg \in Range(received[bcast[b].at_call[2]])
        /\ Targets(bcast[b].user) = <<bcast[b].at_call[2]>>

\* C19, as stated: no broadcast_to_user call ends by raising, so the
\* processor never returns None for a committed operation on its account.
C19_BroadcastNeverRaises ==
    \A b \in BcastTasks :
        bcast[b].pc = "done" => /\ ~bcast[b].raised
                                /\ CallerResult(bcast[b]) = "trade"

\* C20, as stated: a socket that was registered when a broadcast was called
\* and stays open gets the message eventually, whatever the other sockets
\* do, in this broadcast and in later ones.
C20_StalledSocketDoesNotBlockOthers ==
    \A b \in BcastTasks, ws \in WebSockets :
        (bcast[b].pc = "send" /\ ws \in Range(bcast[b].at_call))
            ~> (bcast[b].msg \in Range(received[ws]) \/ sockets[ws] # "open")

\* ------------------------------------------- C21: delivery order
\* C21, as stated: every socket receives its user's messages in the order of
\* the broadcast_to_user calls (msg.n is the number of the call), also when
\* the calls are made by tasks that run concurrently.
C21_DeliveryInCallOrder ==
    \A ws \in WebSockets :
        \A j, k \in DOMAIN received[ws] :
            j < k => received[ws][j].n < received[ws][k].n

\* ------------------------------------------- C22: closing duplicate rows
\* Tables as process_trade_closed may find them (line 466, "handles legacy
\* duplicates"): one, two or three OPEN rows under (u1, p1), next to rows of
\* another user and of another position.
CloseSeeds ==
    {<<Row("u1", "p1", "OPEN", 1, 2)>>,
     <<Row("u1", "p1", "OPEN", 1, 2), Row("u1", "p1", "OPEN", 0, 0)>>,
     <<Row("u1", "p1", "OPEN", 0, 0), Row("u2", "p1", "OPEN", 1, 2),
       Row("u1", "p1", "OPEN", 1, 2), Row("u1", "p1", "OPEN", 1, 2)>>}

InitClose ==
    /\ trades \in CloseSeeds
    /\ trade_logs = LogsOfRows(trades)
    /\ broadcasts = <<>>
    /\ background_tasks = {}
    /\ open_trade_locks = <<>>
    /\ call = [t \in Tasks |-> IdleCall]
    /\ callsLeft = MaxCalls
    /\ faultsLeft = MaxFaults
    /\ PollIdle
    /\ ConnIdle
    /\ WsIdle
    /\ AuxIdle

\* the processor's callers on a table that holds duplicates
SpecClose == InitClose /\ [][Next]_vars

\* the OPEN rows of (u, e), as the table holds them
MatchingOpen(u, e) ==
    {i \in DOMAIN trades : /\ trades[i].user_id = u
                           /\ trades[i].external_trade_id = e
                           /\ trades[i].status = "OPEN"}

\* C22: a process_trade_closed call selects every OPEN row of its (user,
\* external id); its commit makes all of them CLOSED with an exit price and
\* the P&L of the price movement, leaves every other row alone and adds one
\* "closed" entry, for the newest of them; its broadcast step sends one
\* trade_closed message for that row; no other step of the call writes rows,
\* entries or messages; and the row returned is that newest row.
C22_CloseClosesAllDuplicates ==
    [][\A t \in ExtTasks :
          (call'[t] # call[t] /\ call'[t].op = "close") =>
             LET c == call[t]
                 d == call'[t]
             IN  /\ (c.pc = "c_select" /\ d.pc = "c_commit") =>
                        /\ d.rows = MatchingOpen(c.user, c.ext)
                        /\ d.ret = SetMax(MatchingOpen(c.user, c.ext))
                 /\ IF c.pc = "c_commit" /\ d.pc = "c_stats"
                    THEN /\ Len(trades') = Len(trades)
                         /\ \A i \in c.rows :
                               /\ trades'[i].status = "CLOSED"
                               /\ trades'[i].exit_price # 0
                               /\ trades'[i].pnl =
                                     (trades'[i].exit_price - trades[i].entry_price) * 10
                         /\ \A i \in DOMAIN trades \ c.rows : trades'[i] = trades[i]
                         /\ trade_logs' = Append(trade_logs,
                               [trade_id |-> c.ret, event_type |-> "closed"])
                         /\ broadcasts' = broadcasts
                    ELSE IF c.pc = "c_bcast"
                    THEN /\ broadcasts' = Append(broadcasts,
                               [type |-> "trade_closed", trade_id |-> c.ret,
                                user_id |-> c.user])
                         /\ UNCHANGED <<trades, trade_logs>>
                    ELSE UNCHANGED <<trades, trade_logs, broadcasts>>
                 /\ (d.pc = "done" /\ d.outcome = "ok") =>
                        /\ d.ret = c.ret
                        /\ c.ret = SetMax(c.rows)
      ]_vars

\* a close has returned the newest of several OPEN rows: an older duplicate
\* is CLOSED without an entry of its own, and the returned row has its one
\* "closed" entry and its one trade_closed message
C22_Witness ==
    \E t \in ExtTasks :
        /\ call[t].op = "close" /\ call[t].pc = "done" /\ call[t].outcome = "ok"
        /\ \E i \in DOMAIN trades :
              /\ i < call[t].ret
              /\ trades[i].user_id = call[t].user
              /\ trades[i].external_trade_id = call[t].ext
              /\ trades[i].status = "CLOSED"
              /\ [trade_id |-> i, event_type |-> "closed"] \notin Range(trade_logs)
        /\ trades[call[t].ret].status = "CLOSED"
        /\ Cardinality({k \in DOMAIN trade_logs :
              trade_logs[k] = [trade_id |-> call[t].ret, event_type |-> "closed"]}) = 1
        /\ Cardinality({k \in DOMAIN broadcasts :
              /\ broadcasts[k].type = "trade_closed"
              /\ broadcasts[k].trade_id = call[t].ret}) = 1

\* ------------------------------------------- the figures of a closed row
\* process_trade_closed, lines 497-537, on one row.  Floats are counted in
\* fixed steps: prices in 0.0001, sizes in 0.01 lot, money in 0.01 of the
\* account currency, risk units in 0.001.
Abs(x) == IF x < 0 THEN -x ELSE x

\* round(a / b, n) in steps of the last digit kept, b > 0: the integer
\* nearest to a / b; when a / b lies halfway between two integers the binary
\* value of the float decides, so either neighbour
Rounded(a, b) ==
    {q \in {a \div b, (a \div b) + 1} : 2 * Abs(q * b - a) <= b}

\* a rule that puts the boundary of the direct instruments at 2000
TierDirectAbove2000(entry_price) ==
    IF entry_price > 20000000 THEN 1
    ELSE IF entry_price > 200000 THEN 2 ELSE 3

\* Lines 516-526 and 531-536: the instrument category read off the entry
\* price, above 1000, above 20, or neither
Tier(entry_price) ==
    IF entry_price > 10000000 THEN 1
    ELSE IF entry_price > 200000 THEN 2 ELSE 3

\* Lines 514-515
PriceDiff(direction, entry_price, exit_price) ==
    IF direction = "BUY" THEN exit_price - entry_price
    ELSE entry_price - exit_price

\* Lines 516-526: round(price_diff * lot_size, 2), or
\* round((price_diff / pip_size) * 10.0 * lot_size, 2) with pip_size 0.01 or
\* 0.0001.  In cents: price_diff * lot_size / 10000, / 10, and * 10.
DerivedPnl(price_diff, entry_price, lot_size) ==
    CASE Tier(entry_price) = 1 -> Rounded(price_diff * lot_size, 10000)
      [] Tier(entry_price) = 2 -> Rounded(price_diff * lot_size, 10)
      [] Tier(entry_price) = 3 -> {price_diff * lot_size * 10}

\* Lines 531-537: round(row.pnl / risk_in_money, 3), risk_in_money being
\* risk * lot_size, (risk / 0.01) * 10.0 * lot_size or (risk / 0.0001) * 10.0
\* * lot_size.  In cents that is risk * lot_size / 10000, / 10, and * 10.
PnlR(pnl, risk, entry_price, lot_size) ==
    CASE Tier(entry_price) = 1 -> Rounded(10000000 * pnl, risk * lot_size)
      [] Tier(entry_price) = 2 -> Rounded(10000 * pnl, risk * lot_size)
      [] Tier(entry_price) = 3 -> Rounded(100 * pnl, risk * lot_size)

\* Lines 497-537: the body of "for row in open_trades" on the row in calc
CloseRow ==
    LET row == calc
        exit_price == IF row.raw_exit # None /\ row.raw_exit[1] # 0
                      THEN row.raw_exit[1] ELSE row.entry_price
        price_diff == PriceDiff(row.direction, row.entry_price, exit_price)
        risk == IF row.sl # None THEN Abs(row.entry_price - row.sl[1]) ELSE 0
        has_risk == /\ row.sl # None /\ row.sl[1] # 0 /\ row.entry_price # 0
                    /\ risk > 0 /\ row.lot_size > 0
    IN  /\ row.pc = "row"
        /\ \E pnl \in (IF row.broker_pnl # None THEN {row.broker_pnl[1]}
                       ELSE DerivedPnl(price_diff, row.entry_price, row.lot_size)) :
             \E pnl_r \in (IF has_risk
                           THEN {Some(q) : q \in PnlR(pnl, risk, row.entry_price,
                                                     row.lot_size)}
                           ELSE {row.pnl_r}) :
                calc' = [row EXCEPT !.pc = "closed", !.exit_price = exit_price,
                                    !.pnl = Some(pnl), !.pnl_r = pnl_r]
        /\ UNCHANGED <<tpVars, pollVars, connVars, wsVars, beatVars, restVars>>

Directions == {"BUY", "SELL"}

\* trade_data.get("pnl"): absent, zero, a loss of 0.07
BrokerPnls == {None, Some(0), Some(-7)}

\* OPEN rows and close requests: entry prices, what the exit price differs by
\* (next to a missing and a zero exit price), the distance of the stop-loss
\* (next to none and one at the entry price), and sizes
Cases(entries, deltas, risk, lots) ==
    UNION {{[IdleCalc EXCEPT !.pc = "row", !.direction = d, !.entry_price = e,
                             !.raw_exit = x, !.sl = s, !.lot_size = l,
                             !.broker_pnl = b] :
               d \in Directions,
               x \in {None, Some(0)} \cup {Some(e + dl) : dl \in deltas},
               s \in {None, Some(e), Some(e - risk)},
               l \in lots, b \in BrokerPnls} : e \in entries}

\* forex at 1.1000 and at 20.0000 moving 50 pips, stop 100 pips away; an
\* index at 20.01 and at 1000.00 moving 0.005, stop 0.10 away; instruments at
\* 1000.01 and 1850.00 moving -12.34 and +50.00, stop 10.00 away, 0.01 lot
CloseCases ==
    Cases({11000, 200000}, {-50, 50}, 100, {0, 1, 100})
    \cup Cases({200100, 10000000}, {-50, 50}, 1000, {0, 1, 100})
    \cup Cases({10000100, 18500000}, {-123400, 500000}, 100000, {0, 1})

InitCalc ==
    /\ trades = <<>>
    /\ trade_logs = <<>>
    /\ broadcasts = <<>>
    /\ background_tasks = {}
    /\ open_trade_locks = <<>>
    /\ call = [t \in Tasks |-> IdleCall]
    /\ callsLeft = 0
    /\ faultsLeft = 0
    /\ PollIdle
    /\ ConnIdle
    /\ WsIdle
    /\ calc \in CloseCases
    /\ BeatIdle
    /\ stop = "up"
    /\ advice = IdleAdvice
    /\ flagged = IdleFlagged
    /\ engine = IdleEngine
    /\ startup = IdleStartup

NextCalc == CloseRow

\* the loop body of process_trade_closed over rows and requests
SpecCalc == InitCalc /\ [][NextCalc]_vars

\* ------------------------------------------- C23: P&L by tier
\* C23: the row closed holds a P&L; it is the broker's figure when the request
\* carries one, whatever the entry price; otherwise, with d the exit price
\* less the entry price for a BUY and the entry price less the exit price for
\* a SELL, it is (to the cent) d times the size for an entry price above
\* 1000, d / 0.01 * 10 * size for an entry price above 20 and at most 1000,
\* and d / 0.0001 * 10 * size otherwise; a BUY of one lot from 1.1000 to
\* 1.1050 is 50 pips, 500.00.
C23_PnlByTier ==
    calc.pc = "closed" =>
        LET d == IF calc.direction = "BUY"
                 THEN calc.exit_price - calc.entry_price
                 ELSE calc.entry_price - calc.exit_price
            l == calc.lot_size
            p == calc.pnl[1]
        IN  /\ calc.pnl # None
            /\ IF calc.broker_pnl # None THEN p = calc.broker_pnl[1]
               ELSE IF calc.entry_price > 10000000
                    THEN 2 * Abs(10000 * p - d * l) <= 10000
               ELSE IF calc.entry_price > 200000
                    THEN 2 * Abs(10 * p - d * l) <= 10
               ELSE p = d * l * 10
            /\ (/\ calc.broker_pnl = None /\ calc.direction = "BUY"
                /\ calc.entry_price = 11000 /\ calc.exit_price = 11050
                /\ l = 100) => p = 50000

\* a SELL of 0.01 lot at 1850.00 closed at 1837.66 without a broker figure:
\* 12.34 * 0.01 stored as 0.12
C23_Witness ==
    /\ calc.pc = "closed" /\ calc.broker_pnl = None
    /\ calc.direction = "SELL" /\ calc.entry_price = 18500000
    /\ calc.exit_price = 18376600 /\ calc.lot_size = 1
    /\ calc.pnl = Some(12)

\* ------------------------------------------- C24: P&L in risk units
\* C24, as stated: for a row closed with a stop-loss, a risk |entry - sl| above
\* zero and a size above zero, pnl_r is (to the third decimal) the stored P&L
\* divided by the risk in money, the risk converted by the rule of the row's
\* tier and its size; and when the P&L was derived from the prices, pnl_r is
\* (to the third decimal) the signed price move divided by |entry - sl|.  In
\* every other case pnl_r is left unset.
C24_PnlInRiskUnits ==
    calc.pc = "closed" =>
        LET d == IF calc.direction = "BUY"
                 THEN calc.exit_price - calc.entry_price
                 ELSE calc.entry_price - calc.exit_price
            l == calc.lot_size
            p == calc.pnl[1]
            q == calc.pnl_r[1]
            risk == Abs(calc.entry_price - calc.sl[1])
        IN  IF calc.sl # None /\ calc.sl[1] # 0 /\ risk > 0 /\ l > 0
            THEN /\ calc.pnl_r # None
                 /\ IF calc.entry_price > 10000000
                    THEN 2 * Abs(q * risk * l - 10000000 * p) <= risk * l
                    ELSE IF calc.entry_price > 200000
                    THEN 2 * Abs(q * risk * l - 10000 * p) <= risk * l
                    ELSE 2 * Abs(q * risk * l - 100 * p) <= risk * l
                 /\ calc.broker_pnl = None =>
                        2 * Abs(q * risk - 1000 * d) <= risk
            ELSE calc.pnl_r = None

\* ------------------------------------------- the heartbeat
\* account.py 35: minutes=5
FreshnessMinutes == 5

\* metaapi_service.py 599: heartbeat_interval = 30
HeartbeatInterval == 30

MaxNow == 6

MaxBeatFaults == 1

MaxRaises == 1

MaxCycles == 31

\* metaapi_service.py 88-112, _touch_heartbeat: now_utc is committed into the
\* account's row, or the session raises and the exception is only logged
TouchHeartbeat(ok) ==
    mt_last_heartbeat' = IF ok THEN [mt_last_heartbeat EXCEPT ![LoopAccount] = Some(now)]
                         ELSE mt_last_heartbeat

TouchChoices == IF beatFaultsLeft > 0 THEN {TRUE, FALSE} ELSE {TRUE}

SpendBeatFault(ok) == beatFaultsLeft' = IF ok THEN beatFaultsLeft ELSE beatFaultsLeft - 1

\* metaapi_service.py 423-445: synchronized; the state is marked connected
\* and the listener task is created.  The caller goes on to line 474.
BeatConnect ==
    /\ beat.pc = "off"
    /\ beat' = [beat EXCEPT !.pc = "touch", !.is_connected = TRUE,
                            !.listening = TRUE]
    /\ UNCHANGED <<mt_last_heartbeat, now, report, beatFaultsLeft, raisesLeft>>
    /\ UNCHANGED <<tpVars, pollVars, connVars, wsVars, calc, restVars>>

\* metaapi_service.py 474-476: _touch_heartbeat, then connect returns the
\* account info with "connected": True
BeatConnectTouch ==
    /\ beat.pc = "touch"
    /\ \E ok \in TouchChoices :
          /\ TouchHeartbeat(ok)
          /\ SpendBeatFault(ok)
          /\ beat' = [beat EXCEPT !.pc = "done", !.returned = "connected",
                                  !.cycles = IF ok THEN 0 ELSE @]
    /\ UNCHANGED <<now, report, raisesLeft>>
    /\ UNCHANGED <<tpVars, pollVars, connVars, wsVars, calc, restVars>>

\* metaapi_service.py 605-609: no terminal state; sleep, count, continue
CycleNoTerminal ==
    /\ beat.listening /\ beat.cycles < MaxCycles
    /\ beat' = [beat EXCEPT !.heartbeat_counter = @ + 1, !.cycles = @ + 1]
    /\ UNCHANGED <<mt_last_heartbeat, now, report, beatFaultsLeft, raisesLeft>>
    /\ UNCHANGED <<tpVars, pollVars, connVars, wsVars, calc, restVars>>

\* metaapi_service.py 603-614 and 715-719: reading the terminal state or its
\* positions raises; the cycle ends in the inner except and the sleep
CycleRaised ==
    /\ beat.listening /\ beat.cycles < MaxCycles /\ raisesLeft > 0
    /\ raisesLeft' = raisesLeft - 1
    /\ beat' = [beat EXCEPT !.cycles = @ + 1]
    /\ UNCHANGED <<mt_last_heartbeat, now, report, beatFaultsLeft>>
    /\ UNCHANGED <<tpVars, pollVars, connVars, wsVars, calc, restVars>>

\* metaapi_service.py 640-652 within a cycle that finds a terminal state: the
\* counter goes up and at heartbeat_interval the heartbeat is touched and the
\* counter set to 0, whether or not the touch persisted anything
Cycle ==
    /\ beat.listening /\ beat.cycles < MaxCycles
    /\ IF beat.heartbeat_counter + 1 >= HeartbeatInterval
       THEN \E ok \in TouchChoices :
               /\ TouchHeartbeat(ok)
               /\ SpendBeatFault(ok)
               /\ beat' = [beat EXCEPT !.heartbeat_counter = 0,
                                       !.cycles = IF ok THEN 0 ELSE @ + 1]
       ELSE /\ beat' = [beat EXCEPT !.heartbeat_counter = @ + 1, !.cycles = @ + 1]
            /\ UNCHANGED <<mt_last_heartbeat, beatFaultsLeft>>
    /\ UNCHANGED <<now, report, raisesLeft>>
    /\ UNCHANGED <<tpVars, pollVars, connVars, wsVars, calc, restVars>>

\* a minute passes
Tick ==
    /\ now < MaxNow
    /\ now' = now + 1
    /\ UNCHANGED <<beat, mt_last_heartbeat, report, beatFaultsLeft, raisesLeft>>
    /\ UNCHANGED <<tpVars, pollVars, connVars, wsVars, calc, restVars>>

\* account.py 35-45, _is_connected_recently, and lines 298-311
Recent(a) ==
    /\ mt_last_heartbeat[a] # None
    /\ now - mt_last_heartbeat[a][1] < FreshnessMinutes

\* metaapi_service.py 80-84, is_account_connected
IsAccountConnected(a) == a = LoopAccount /\ beat.is_connected

\* account.py 276-330, get_account_status: the first account with a recent
\* heartbeat is reported connected; without one the first account is reported
\* as linked
StatusQuery ==
    LET active == {i \in DOMAIN Accounts : Recent(Accounts[i])}
    IN  /\ report' = IF active = {}
                     THEN [query |-> "status", account |-> Accounts[1],
                           connected |-> FALSE]
                     ELSE [query |-> "status",
                           account |-> Accounts[CHOOSE i \in active :
                                                   \A j \in active : i <= j],
                           connected |-> TRUE]
        /\ UNCHANGED <<beat, mt_last_heartbeat, now, beatFaultsLeft, raisesLeft>>
        /\ UNCHANGED <<tpVars, pollVars, connVars, wsVars, calc, restVars>>

\* account.py 510-527, get_trader_data: the entry of one account in meta_list
TraderQuery(a) ==
    /\ report' = [query |-> "trader", account |-> a,
                  connected |-> IsAccountConnected(a) \/ Recent(a)]
    /\ UNCHANGED <<beat, mt_last_heartbeat, now, beatFaultsLeft, raisesLeft>>
    /\ UNCHANGED <<tpVars, pollVars, connVars, wsVars, calc, restVars>>

\* two linked accounts, each with no heartbeat or one written just now by an
\* earlier session; one of them is about to be connected
InitBeat ==
    /\ trades = <<>>
    /\ trade_logs = <<>>
    /\ broadcasts = <<>>
    /\ background_tasks = {}
    /\ open_trade_locks = <<>>
    /\ call = [t \in Tasks |-> IdleCall]
    /\ callsLeft = 0
    /\ faultsLeft = 0
    /\ PollIdle
    /\ ConnIdle
    /\ WsIdle
    /\ calc = IdleCalc
    /\ beat = IdleBeat
    /\ mt_last_heartbeat \in [Range(Accounts) -> {None, Some(0)}]
    /\ now = 0
    /\ report = IdleReport
    /\ beatFaultsLeft = MaxBeatFaults
    /\ raisesLeft = MaxRaises
    /\ stop = "up"
    /\ advice = IdleAdvice
    /\ flagged = IdleFlagged
    /\ engine = IdleEngine
    /\ startup = IdleStartup

NextBeat ==
    \/ BeatConnect
    \/ BeatConnectTouch
    \/ CycleNoTerminal
    \/ CycleRaised
    \/ Cycle
    \/ Tick
    \/ StatusQuery
    \/ \E a \in Range(Accounts) : TraderQuery(a)

SpecBeat == InitBeat /\ [][NextBeat]_vars

\* ------------------------------------------- C25: heartbeat freshness
\* C25, as stated: a status query never reports an account connected whose
\* persisted heartbeat is missing or older than five minutes, whatever the
\* connection manager holds in memory, and it reports connected when the
\* account's heartbeat is younger than five minutes.
C25_StaleHeartbeatMeansNotConnected ==
    [][report' # report =>
          \A a \in Range(Accounts) :
              LET stale == \/ mt_last_heartbeat[a] = None
                           \/ now - mt_last_heartbeat[a][1] > FreshnessMinutes
                  young == /\ mt_last_heartbeat[a] # None
                           /\ now - mt_last_heartbeat[a][1] < FreshnessMinutes
              IN  /\ stale => ~(report'.connected /\ report'.account = a)
                  /\ young => (report'.query = "status" => report'.connected)
                  /\ young => (report'.query = "trader" /\ report'.account = a
                                  => report'.connected)
      ]_vars

\* ------------------------------------------- C26: the heartbeat is kept up
\* C26, as stated: when connect returns a connection the account's row holds
\* the heartbeat of that moment, and while the polling loop runs no 30
\* polling cycles in a row go by without the heartbeat being persisted.  (With
\* a cycle a second, the heartbeat of a streaming account then stays well
\* inside the five minutes.)
C26_HeartbeatKeptUp ==
    [][/\ (beat.pc = "touch" /\ beat'.returned = "connected") =>
              mt_last_heartbeat'[LoopAccount] = Some(now)
       /\ beat'.listening => beat'.cycles < HeartbeatInterval
      ]_vars

\* ------------------------------------------- shutdown
MaxStopCalls == 2

\* the listener tasks that shutdown finds: those of the registered states
\* that have not ended
Registered ==
    {states[connections[k]].listener_task : k \in DOMAIN connections} \ {0}

\* main.py 72-74: the lifespan leaves its yield and awaits shutdown()
ShutdownBegin ==
    /\ stop = "up"
    /\ stop' = "cancelling"
    /\ UNCHANGED <<tpVars, pollVars, connVars, wsVars, calc, beatVars, advice, lateVars>>

\* metaapi_service.py 184-199: one pass of the loop over the registered
\* states; the state's listener task is cancelled and awaited, its
\* connection closed
ShutdownCancel ==
    /\ stop = "cancelling"
    /\ \E lt \in Registered :
          /\ listeners[lt].pc # "ended"
          /\ listeners' = Cancelled(listeners, lt)
    /\ UNCHANGED <<states, connections, conn, connectsLeft, disc, crashesLeft,
                   disconnectsLeft>>
    /\ UNCHANGED <<tpVars, pollVars, wsVars, auxVars>>

\* metaapi_service.py 201-229 and main.py 75-77: the loop is through, the
\* SDK client is closed and shutdown returns; the lifespan goes on to close
\* Redis and the database
ShutdownEnd ==
    /\ stop = "cancelling"
    /\ \A lt \in Registered : listeners[lt].pc = "ended"
    /\ stop' = "down"
    /\ UNCHANGED <<tpVars, pollVars, connVars, wsVars, calc, beatVars, advice, lateVars>>

\* the processor serving requests for an account that is connected and polled
InitStop ==
    /\ trades = <<>>
    /\ trade_logs = <<>>
    /\ broadcasts = <<>>
    /\ background_tasks = {}
    /\ open_trade_locks = <<>>
    /\ call = [t \in Tasks |-> IdleCall]
    /\ callsLeft = MaxStopCalls
    /\ faultsLeft = 0
    /\ PollIdle
    /\ states = <<[ConnectionState(<<"u1", "a1">>) EXCEPT
                      !.is_connected = TRUE, !.connection = TRUE,
                      !.listener_task = 1]>>
    /\ connections = (<<"u1", "a1">> :> 1)
    /\ listeners = <<[key |-> <<"u1", "a1">>, state |-> 1, pc |-> "running",
                      crashed |-> FALSE, cancelled |-> FALSE,
                      disconnected |-> FALSE]>>
    /\ conn = [t \in ConnTasks \cup {ReconnTask} |-> IdleConnect]
    /\ connectsLeft = 0
    /\ disc = IdleDisconnect
    /\ crashesLeft = 0
    /\ disconnectsLeft = 0
    /\ WsIdle
    /\ AuxIdle

NextStop ==
    \/ NextScore
    \/ ShutdownBegin
    \/ ShutdownCancel
    \/ ShutdownEnd

SpecStop == InitStop /\ [][NextStop]_vars

\* ------------------------------------------- C27: scoring tasks and shutdown
\* C27, as stated: a call that returns its trade has put a scoring task into
\* the live-task set, a task leaves the set only by finishing, and when
\* shutdown has completed every polling task has been cancelled and no
\* scoring task is left unfinished in the set (the code sets no timer, so
\* there is no grace period that could have run out instead).
C27_ShutdownWaitsForScoring ==
    [][/\ \A t \in ExtTasks :
            (/\ call[t].pc \in {"o_finish", "c_finish", "u_finish"}
             /\ call'[t].pc = "done" /\ call'[t].outcome = "ok") =>
                \E k \in background_tasks' \ background_tasks :
                    k.by = t /\ k.pc = "scheduled"
       /\ stop' = "down" =>
            /\ \A i \in DOMAIN listeners' : listeners'[i].pc = "ended"
            /\ background_tasks' = {}
      ]_vars

\* ------------------------------------------- analyze_pre_trade
MaxFlags == 5

Larger(a, b) == IF a >= b THEN a ELSE b

Smaller(a, b) == IF a <= b THEN a ELSE b

\* What the scoring dependency does with the request: the call raises, it
\* times out (which the client raises as well), or it returns a text that is
\* not JSON, a JSON list, or a JSON object with or without a "score".
Answers ==
    {[kind |-> "raises"], [kind |-> "timeout"], [kind |-> "not_json"],
     [kind |-> "list"]}
    \cup {[kind |-> "object", score |-> s] :
            s \in {None} \cup {Some(v) : v \in 0..11}}

\* ai_service.py 243-266 and 308-334: the dict that the fields are read
\* from.  A failed call gives the fallback dict, a text that does not parse
\* gives {}, anything that parses is passed on as it is.
FallbackScore(flag_count) == Larger(1, 5 - flag_count)

ParsedResult(answer, flag_count) ==
    CASE answer.kind \in {"raises", "timeout"} ->
            [kind |-> "object", score |-> Some(FallbackScore(flag_count))]
      [] answer.kind = "not_json" -> [kind |-> "object", score |-> None]
      [] OTHER -> answer

\* ai_service.py 336-345 and schemas/analysis.py 9: result.get("score", 5)
\* needs a dict, and TradeScore takes a score from 1 to 10 only; anything else
\* raises out of analyze_pre_trade.  The value is Some(score), or None when
\* it raised.
ScoreOf(result) ==
    IF result.kind # "object" THEN None
    ELSE LET v == IF result.score = None THEN 5 ELSE result.score[1]
         IN IF v >= 1 /\ v <= 10 THEN Some(v) ELSE None

\* ai_service.py 291-304: without an API key the mock score is returned and
\* the dependency is not called.
MockScore(flag_count) == Larger(1, Smaller(10, 6 - (flag_count \div 2)))

AnalyzePreTradeScore(key, answer, flag_count) ==
    IF ~key THEN Some(MockScore(flag_count))
    ELSE ScoreOf(ParsedResult(answer, flag_count))

\* trade_processing_service.py 283-287: the task awaits analyze_pre_trade;
\* when that raises, the exception is logged and the task returns.
AwaitAnalyze ==
    /\ advice.pc = "scheduled"
    /\ LET s == AnalyzePreTradeScore(advice.key, advice.answer,
                                     advice.flag_count)
       IN advice' = [advice EXCEPT !.score = s, !.raised = (s = None),
                        !.pc = IF s = None THEN "done" ELSE "save"]
    /\ UNCHANGED <<tpVars, pollVars, connVars, wsVars, calc, beatVars, stop, lateVars>>

\* trade_processing_service.py 290-317: the score is set on the row and
\* committed.
SaveScore ==
    /\ advice.pc = "save"
    /\ advice' = [advice EXCEPT !.ai_score = advice.score, !.pc = "done"]
    /\ UNCHANGED <<tpVars, pollVars, connVars, wsVars, calc, beatVars, stop, lateVars>>

\* a trade has been opened with flag_count alerts and its scoring task is
\* scheduled; ai_score is null as process_trade_opened left it
InitAdvice ==
    /\ trades = <<>>
    /\ trade_logs = <<>>
    /\ broadcasts = <<>>
    /\ background_tasks = {}
    /\ open_trade_locks = <<>>
    /\ call = [t \in Tasks |-> IdleCall]
    /\ callsLeft = 0
    /\ faultsLeft = 0
    /\ PollIdle
    /\ ConnIdle
    /\ WsIdle
    /\ calc = IdleCalc
    /\ BeatIdle
    /\ stop = "up"
    /\ flagged = IdleFlagged
    /\ engine = IdleEngine
    /\ startup = IdleStartup
    /\ advice \in {[IdleAdvice EXCEPT !.pc = "scheduled", !.key = k,
                       !.answer = a, !.flag_count = n] :
                       k \in BOOLEAN, a \in Answers, n \in 0..MaxFlags}

NextAdvice ==
    \/ AwaitAnalyze
    \/ SaveScore

SpecAdvice == InitAdvice /\ [][NextAdvice]_vars

\* ------------------------------------------- C28: a score whatever the answer
\* C28, as stated: when the scoring task of an opened trade has run to its
\* end, the trade has a score, whatever the scoring dependency did; when the
\* dependency raised or timed out the score is the local fallback,
\* max(1, 5 - number of alerts); nothing is raised to the caller (the task is
\* detached, its failure ends in the task).
C28_ScoreWhateverTheAnswer ==
    advice.pc = "done" =>
        /\ advice.ai_score # None
        /\ (advice.key /\ advice.answer.kind \in {"raises", "timeout"}) =>
               advice.ai_score = Some(FallbackScore(advice.flag_count))

\* ------------------------------------------- C29: the open-time analysis is kept
\* C29, as stated: whenever a row's analysis is a modification analysis, the
\* open-time analysis that the row held before is nested inside it: no save
\* of a re-scoring task discards an open-time analysis, whatever the order of
\* the open-time task, the update calls and the re-scoring tasks.
C29_OpenThesisKept ==
    [][\A i \in DOMAIN trades :
          (/\ "pre_trade" \in Range(trades[i].ai_analysis)
           /\ trades'[i].ai_analysis # None
           /\ Head(trades'[i].ai_analysis) = "modified") =>
              "pre_trade" \in Range(Tail(trades'[i].ai_analysis))
      ]_vars

\* ------------------------------------------- the alerts of an opened trade
\* behavioral_service.py 628-658: the checks run_all_checks makes, in its
\* order.  The news check (lines 661-664) needs news_events, which the open
\* path does not pass.
Detectors == <<"revenge_trading", "overtrading", "weak_session",
               "correlation_stacking", "winner_cutting", "missing_sl_tp",
               "bad_rr", "excessive_risk">>

\* behavioral_service.py 625-666: the alerts of the checks that found
\* something, in the order of the checks
RunAllChecks(fired) == SelectSeq(Detectors, LAMBDA d : d \in fired)

\* trade_processing_service.py 147-154: the checks are run and their alerts
\* set on the row as its behavioral_flags
FlagChecks ==
    /\ flagged.pc = "checks"
    /\ LET alerts == RunAllChecks(flagged.fired)
       IN flagged' = [flagged EXCEPT !.alerts = alerts,
                         !.behavioral_flags = alerts, !.pc = "commit"]
    /\ UNCHANGED <<tpVars, pollVars, connVars, wsVars, calc, beatVars, stop,
                   advice, engine, startup>>

\* trade_processing_service.py 156-172 and 213-216: the "opened" entry, with
\* the alerts in its payload, is added and committed with the row; a commit
\* that raises rolls both back and the call returns None.
FlagCommit ==
    /\ flagged.pc = "commit"
    /\ \E f \in FaultChoices :
          /\ SpendFault(f)
          /\ LET logs == <<[event_type |-> "opened",
                            behavioral_flags |-> flagged.behavioral_flags]>>
             IN flagged' =
                  IF f
                  THEN [flagged EXCEPT !.pc = "done", !.returned = "None"]
                  ELSE [flagged EXCEPT !.pc = "done", !.returned = "trade",
                           !.row = <<flagged.behavioral_flags>>,
                           !.log_rows = logs]
    /\ UNCHANGED <<trades, trade_logs, broadcasts, background_tasks,
                   open_trade_locks, call, callsLeft>>
    /\ UNCHANGED <<pollVars, connVars, wsVars, calc, beatVars, stop, advice,
                   engine, startup>>

\* an open call has inserted its row; any set of the checks may find
\* something
InitFlagged ==
    /\ trades = <<>>
    /\ trade_logs = <<>>
    /\ broadcasts = <<>>
    /\ background_tasks = {}
    /\ open_trade_locks = <<>>
    /\ call = [t \in Tasks |-> IdleCall]
    /\ callsLeft = 0
    /\ faultsLeft = MaxFaults
    /\ PollIdle
    /\ ConnIdle
    /\ WsIdle
    /\ calc = IdleCalc
    /\ BeatIdle
    /\ stop = "up"
    /\ advice = IdleAdvice
    /\ engine = IdleEngine
    /\ startup = IdleStartup
    /\ flagged \in {[IdleFlagged EXCEPT !.pc = "checks", !.fired = S] :
                       S \in SUBSET Range(Detectors)}

NextFlagged ==
    \/ FlagChecks
    \/ FlagCommit

SpecFlagged == InitFlagged /\ [][NextFlagged]_vars

\* ------------------------------------------- C30: alerts in the row and the log
\* C30, as stated: when an open call has committed, the row's alert list is
\* the list of the alerts the checks produced, the log holds exactly one
\* "opened" entry, and for every alert there is one entry of type
\* "behavioral_flag" of its own.
C30_AlertsInRowAndLog ==
    (flagged.pc = "done" /\ flagged.returned = "trade") =>
        /\ flagged.row = <<flagged.alerts>>
        /\ Cardinality({i \in DOMAIN flagged.log_rows :
               flagged.log_rows[i].event_type = "opened"}) = 1
        /\ \A a \in Range(flagged.alerts) :
               Cardinality({i \in DOMAIN flagged.log_rows :
                   /\ flagged.log_rows[i].event_type = "behavioral_flag"
                   /\ flagged.log_rows[i].behavioral_flags = <<a>>}) = 1

\* ------------------------------------------- run_all_checks on a candidate
MaxRows == 2

\* symbols: two that share USD_PAIRS, one that shares EUR_PAIRS with the
\* first only, gold, and one that is in no grouping
Symbols == {"EURUSD", "GBPUSD", "EURJPY", "XAUUSD", "BTCUSD"}

\* behavioral_service.py 25-33 and 66-80, ASSET_CLASSES and get_asset_class
GetAssetClass(symbol) ==
    (IF symbol \in {"EURUSD", "GBPUSD"} THEN {"USD_PAIRS"} ELSE {})
    \cup (IF symbol \in {"EURUSD", "EURJPY"} THEN {"EUR_PAIRS"} ELSE {})
    \cup (IF symbol \in {"GBPUSD"} THEN {"GBP_PAIRS"} ELSE {})
    \cup (IF symbol \in {"EURJPY"} THEN {"JPY_PAIRS"} ELSE {})
    \cup (IF symbol \in {"XAUUSD"} THEN {"GOLD"} ELSE {})

\* Python's "not x" for a nullable number: None and 0 are both false
Falsy(x) == x = None \/ x = Some(0)

\* a check that takes a level of 0 for a level that is set
MissingWhenNone(trade) == trade.sl = None \/ trade.tp = None

\* behavioral_service.py 574-601, detect_missing_sl_tp
DetectMissingSlTp(trade) == Falsy(trade.sl) \/ Falsy(trade.tp)

\* behavioral_service.py 279-331, detect_bad_rr; min_risk_reward in tenths
DetectBadRr(trade, rules) ==
    IF trade.entry_price = 0 THEN FALSE
    ELSE IF Falsy(trade.sl) \/ Falsy(trade.tp) THEN TRUE
    ELSE LET min_rr == IF rules # None THEN rules[1] ELSE 15
             risk == Abs(trade.entry_price - trade.sl[1])
             reward == Abs(trade.tp[1] - trade.entry_price)
         IN IF risk <= 0 THEN FALSE ELSE 10 * reward < min_rr * risk

\* behavioral_service.py 334-401, detect_excessive_risk; account says whether
\* the balance is positive and whether the computed risk is over the limit
DetectExcessiveRisk(trade, account) ==
    IF trade.entry_price = 0 \/ account = "no_balance" THEN FALSE
    ELSE IF Falsy(trade.sl) THEN TRUE
    ELSE account = "over"

\* behavioral_service.py 423-448: the user's other OPEN rows that share a
\* grouping with the new trade and have its direction
Correlated(trade, rows) ==
    {i \in DOMAIN rows :
        /\ rows[i].status = "OPEN"
        /\ GetAssetClass(trade.symbol) \cap GetAssetClass(rows[i].symbol) # {}
        /\ rows[i].direction = trade.direction}

\* behavioral_service.py 404-464, detect_correlation_stacking
DetectCorrelationStacking(trade, rows) == Correlated(trade, rows) # {}

\* behavioral_service.py 604-666: the checks that fire on this run; the ones
\* that read the history fire as the history has it
Fired(e) ==
    (e.history \cap {"revenge_trading", "overtrading", "weak_session",
                     "winner_cutting"})
    \cup (IF DetectCorrelationStacking(e.trade, e.rows)
          THEN {"correlation_stacking"} ELSE {})
    \cup (IF DetectMissingSlTp(e.trade) THEN {"missing_sl_tp"} ELSE {})
    \cup (IF DetectBadRr(e.trade, e.rules) THEN {"bad_rr"} ELSE {})
    \cup (IF DetectExcessiveRisk(e.trade, e.account)
          THEN {"excessive_risk"} ELSE {})

\* trade_processing_service.py 152: alerts = await run_all_checks(...)
EngineRun ==
    /\ engine.pc = "ready"
    /\ engine' = [engine EXCEPT !.alerts = RunAllChecks(Fired(engine)),
                                !.pc = "done"]
    /\ UNCHANGED <<tpVars, pollVars, connVars, wsVars, calc, beatVars, stop,
                   advice, flagged, startup>>

CandidateTrades ==
    [symbol : Symbols, direction : Directions, entry_price : {0, 10},
     sl : {None, Some(0), Some(9), Some(10)},
     tp : {None, Some(0), Some(11), Some(12)}]

OtherRows ==
    [symbol : {"EURUSD", "GBPUSD", "XAUUSD"}, direction : Directions,
     status : {"OPEN", "CLOSED"}]

RowLists == UNION {[1..n -> OtherRows] : n \in 0..MaxRows}

InitEngine ==
    /\ trades = <<>>
    /\ trade_logs = <<>>
    /\ broadcasts = <<>>
    /\ background_tasks = {}
    /\ open_trade_locks = <<>>
    /\ call = [t \in Tasks |-> IdleCall]
    /\ callsLeft = 0
    /\ faultsLeft = 0
    /\ PollIdle
    /\ ConnIdle
    /\ WsIdle
    /\ calc = IdleCalc
    /\ BeatIdle
    /\ stop = "up"
    /\ advice = IdleAdvice
    /\ flagged = IdleFlagged
    /\ startup = IdleStartup
    \* the inputs of a run: any candidate with any history, balance and rules
    \* and at most one other row; or a candidate with levels with any other rows
    /\ \/ \E t \in CandidateTrades,
             h \in SUBSET {"revenge_trading", "overtrading", "weak_session",
                           "winner_cutting"},
             a \in {"no_balance", "within", "over"},
             r \in {None, Some(25)},
             rs \in {<<>>, <<[symbol |-> "EURUSD", direction |-> "BUY",
                             status |-> "OPEN"]>>} :
             engine = [IdleEngine EXCEPT !.pc = "ready", !.trade = t,
                          !.history = h, !.account = a, !.rules = r, !.rows = rs]
       \/ \E t \in {c \in CandidateTrades :
                      c.entry_price = 10 /\ c.sl = Some(9) /\ c.tp = Some(12)},
             rs \in RowLists :
             engine = [IdleEngine EXCEPT !.pc = "ready", !.trade = t, !.rows = rs]

NextEngine == EngineRun

SpecEngine == InitEngine /\ [][NextEngine]_vars

\* ------------------------------------------- C31: no levels, bad risk setup
\* C31: a run of the checks on a trade with neither stop-loss nor take-profit
\* yields a bad-risk-setup alert (the missing-levels alert or the
\* reward-to-risk alert), whatever the history, rules, balance, other rows
\* and the trade's other fields are; the missing-levels alert is among them
\* in every case.
C31_NoLevelsMeansBadRiskSetup ==
    (/\ engine.pc = "done"
     /\ Falsy(engine.trade.sl) /\ Falsy(engine.trade.tp)) =>
        /\ Range(engine.alerts) \cap {"missing_sl_tp", "bad_rr"} # {}
        /\ "missing_sl_tp" \in Range(engine.alerts)

C31_Witness ==
    /\ engine.pc = "done"
    /\ engine.trade.sl = None /\ engine.trade.tp = None
    /\ engine.trade.entry_price = 0
    /\ engine.history # {}
    /\ "missing_sl_tp" \in Range(engine.alerts)
    /\ "bad_rr" \notin Range(engine.alerts)

\* ------------------------------------------- C32: correlation stacking
\* C32, as stated: a run of the checks yields the correlation-stacking alert
\* exactly when two or more of the user's other OPEN rows share an
\* asset-class grouping with the candidate and have its direction.
C32_StackingNeedsTwo ==
    engine.pc = "done" =>
        ("correlation_stacking" \in Range(engine.alerts)
            <=> Cardinality(Correlated(engine.trade, engine.rows)) >= 2)

\* ------------------------------------------- _auto_reconnect_all
\* the MetaAccount rows with an account id, in the order the query returns
\* them
StoredRows ==
    {<<>>} \cup {<<k>> : k \in ConnKeys}
    \cup {r \in {<<k, q>> : k \in ConnKeys, q \in ConnKeys} : r[1] # r[2]}

\* the task that is created for the i-th row
TaskOfRow(i) == IF i = 1 THEN "c1" ELSE "c2"

RowOfTask(t) == IF t = "c1" THEN 1 ELSE 2

\* only the first row gets its task
SpawnedFirstOnly(rows) ==
    [t \in ConnTasks |-> IF RowOfTask(t) = 1 /\ Len(rows) >= 1
                         THEN "scheduled" ELSE "none"]

\* metaapi_service.py 255-257: one task per row
Spawned(rows) ==
    [t \in ConnTasks |-> IF RowOfTask(t) <= Len(rows)
                         THEN "scheduled" ELSE "none"]

\* metaapi_service.py 246-257: after the delay the rows are read and a task
\* is created for each
AutoReconnectAll ==
    /\ startup.pc = "sleep"
    /\ startup' = [startup EXCEPT !.pc = "spawned",
                                  !.task = Spawned(startup.rows)]
    /\ UNCHANGED <<tpVars, pollVars, connVars, wsVars, calc, beatVars, stop,
                   advice, flagged, engine>>

\* metaapi_service.py 269-277: the task of a row loads the owning user and
\* calls connect for the row's account
SafeConnectAccount(t) ==
    /\ startup.task[t] = "scheduled"
    /\ LET k == startup.rows[RowOfTask(t)]
       IN /\ ConnectStart(t, k, FALSE)
          /\ startup' = [startup EXCEPT !.task[t] = "connect",
                                        !.invoked = Append(@, k)]
    /\ UNCHANGED <<listeners, connectsLeft, disc, crashesLeft, disconnectsLeft>>
    /\ UNCHANGED <<tpVars, pollVars, wsVars, calc, beatVars, stop, advice,
                   flagged, engine>>

\* metaapi_service.py 305-309: _get_api; in simulation mode there is no
\* client, whoever asks
StartupGetApi(t) ==
    /\ ConnectGetApi(t)
    /\ startup.sim => conn'[t].status = "simulation_mode"

\* metaapi_service.py 277-280: connect has returned (or raised, which is
\* logged) and the task ends
SafeConnectReturn(t) ==
    /\ startup.task[t] = "connect"
    /\ conn[t].pc = "done"
    /\ startup' = [startup EXCEPT !.task[t] = "done"]
    /\ UNCHANGED <<tpVars, pollVars, connVars, wsVars, calc, beatVars, stop,
                   advice, flagged, engine>>

\* the service has just been constructed: nothing is registered; the rows
\* are whatever was linked before
InitStartup ==
    /\ trades = <<>>
    /\ trade_logs = <<>>
    /\ broadcasts = <<>>
    /\ background_tasks = {}
    /\ open_trade_locks = <<>>
    /\ call = [t \in Tasks |-> IdleCall]
    /\ callsLeft = 0
    /\ faultsLeft = 0
    /\ PollIdle
    /\ ConnIdle
    /\ WsIdle
    /\ calc = IdleCalc
    /\ BeatIdle
    /\ stop = "up"
    /\ advice = IdleAdvice
    /\ flagged = IdleFlagged
    /\ engine = IdleEngine
    /\ startup \in {[IdleStartup EXCEPT !.pc = "sleep", !.sim = s,
                        !.rows = r] : s \in BOOLEAN, r \in StoredRows}

NextStartup ==
    \/ AutoReconnectAll
    \/ \E t \in ConnTasks : SafeConnectAccount(t)
    \/ \E t \in ConnTasks : StartupGetApi(t)
    \/ \E t \in ConnTasks : ConnectGetAccount(t)
    \/ \E t \in ConnTasks : ConnectDeploy(t)
    \/ \E t \in ConnTasks : ConnectLifecycle(t)
    \/ \E t \in ConnTasks : ConnectSynchronized(t)
    \/ \E t \in ConnTasks : ConnectHeartbeat(t)
    \/ \E t \in ConnTasks : SafeConnectReturn(t)

SpecStartup == InitStartup /\ [][NextStartup]_vars

\* ------------------------------------------- C33: auto-reconnect on startup
\* C33: when the tasks the auto-reconnect routine started have ended, connect
\* has been invoked exactly once for every stored row, each from a task of
\* its own; and in simulation mode every row's (user, account) key holds a
\* registered state that is not connected, has no listener task, and no
\* polling loop exists for the key.
C33_AutoReconnectEveryAccount ==
    (/\ startup.pc = "spawned"
     /\ \A t \in ConnTasks : startup.task[t] \in {"none", "done"}) =>
        \A i \in DOMAIN startup.rows :
            LET k == startup.rows[i]
            IN /\ Cardinality({j \in DOMAIN startup.invoked :
                                  startup.invoked[j] = k}) = 1
               /\ startup.task[TaskOfRow(i)] = "done"
               /\ startup.sim =>
                     /\ k \in DOMAIN connections
                     /\ ~states[connections[k]].is_connected
                     /\ states[connections[k]].listener_task = 0
                     /\ \A l \in DOMAIN listeners : listeners[l].key # k

C33_Witness ==
    /\ startup.pc = "spawned" /\ startup.sim
    /\ Len(startup.rows) = 2
    /\ \A t \in ConnTasks : startup.task[t] = "done"
    /\ \A t \in ConnTasks : conn[t].status = "simulation_mode"

C35_RescoreNotOverwritten ==
    [][\A i \in DOMAIN trades :
          (/\ trades[i].ai_analysis # None
           /\ Head(trades[i].ai_analysis) = "modified") =>
              /\ trades'[i].ai_analysis # None
              /\ Head(trades'[i].ai_analysis) = "modified"
      ]_vars

\* ------------------------------------------- C36: whose trades a sweep closes
\* The Trade row has no account column (models/trade.py 29-71): a row of the
\* user's other account and a simulated one differ from a row of the
\* streamed account by their external id alone.
\* position ids in the live snapshot of the other connected account of LoopUser
OtherAccountPositions == {"q1"}

\* account.py 601: the external id of a simulated trade, f"SIM_{...}"
SimulatedIds == {"SIM_1"}

\* OPEN rows of LoopUser: of the streamed account, of the other account, simulated
OriginSeeds ==
    {<<Row("u1", "p1", "OPEN", 0, 0), Row("u1", "q1", "OPEN", 0, 0)>>,
     <<Row("u1", "p1", "OPEN", 0, 0), Row("u1", "SIM_1", "OPEN", 0, 0)>>,
     <<Row("u1", "q1", "OPEN", 0, 0), Row("u1", "p2", "OPEN", 0, 0),
       Row("u1", "SIM_1", "OPEN", 0, 0)>>,
     <<Row("u1", "p1", "OPEN", 0, 0), Row("u1", "p2", "OPEN", 0, 0)>>}

\* the loop of account a1 about to sweep, the rows of the user being of
\* several origins
InitOrigin ==
    /\ trades \in OriginSeeds
    /\ trade_logs = LogsOfRows(trades)
    /\ broadcasts = <<>>
    /\ background_tasks = {}
    /\ open_trade_locks = <<>>
    /\ call = [t \in Tasks |-> IdleCall]
    /\ callsLeft = 0
    /\ faultsLeft = MaxFaults
    /\ positions \in Snapshots
    /\ current_positions = positions
    /\ known_positions = positions
    /\ loop = [IdleLoop EXCEPT !.pc = "swept", !.after = "swept"]
    /\ emitted = <<>>
    /\ movesLeft = 0
    /\ sweepsLeft = MaxSweeps
    /\ ConnIdle
    /\ WsIdle
    /\ AuxIdle

SpecOrigin == InitOrigin /\ [][NextSweep]_vars

\* C36: a sweep of one account's loop closes an OPEN row only if the row's
\* position is open neither in the snapshot of the streamed account nor in
\* that of the user's other connected account, and never a simulated row.
C36_SweepClosesOnlyOwnStale ==
    [][\A i \in DOMAIN trades :
          (trades[i].status = "OPEN" /\ trades'[i].status = "CLOSED") =>
              /\ trades[i].external_trade_id \notin DOMAIN current_positions
              /\ trades[i].external_trade_id \notin OtherAccountPositions
              /\ trades[i].external_trade_id \notin SimulatedIds
      ]_vars

\* ------------------------------------------- C37: a cycle that raises
\* a loop that remembers the snapshot of a cycle that raised
DiffRaiseRemembered ==
    /\ loop.pc = "closes" /\ Idle(LoopTask) /\ faultsLeft > 0
    /\ \E p \in loop.todo :
         /\ emitted' = Append(emitted, [kind |-> "closed", id |-> p])
         /\ loop' = [loop EXCEPT !.pc = "read", !.todo = {},
                                 !.raised = @ \o emitted']
    /\ faultsLeft' = faultsLeft - 1
    /\ known_positions' = current_positions
    /\ UNCHANGED <<trades, trade_logs, broadcasts, background_tasks,
                   open_trade_locks, call, callsLeft>>
    /\ UNCHANGED <<positions, current_positions, movesLeft, sweepsLeft>>
    /\ UNCHANGED <<connVars, wsVars, auxVars>>

\* Lines 685-692, 816-853 and 715-719: the close of a position is logged and
\* _on_trade_closed raises before it reaches the processor (float() of the
\* broker's profit, commission or swap is outside any try); the except of the
\* loop body logs it and the loop sleeps and starts its next cycle, the
\* assignment of line 713 not having run.
DiffRaise ==
    /\ loop.pc = "closes" /\ Idle(LoopTask) /\ faultsLeft > 0
    /\ \E p \in loop.todo :
         /\ emitted' = Append(emitted, [kind |-> "closed", id |-> p])
         /\ loop' = [loop EXCEPT !.pc = "read", !.todo = {},
                                 !.raised = @ \o emitted']
    /\ faultsLeft' = faultsLeft - 1
    /\ UNCHANGED <<trades, trade_logs, broadcasts, background_tasks,
                   open_trade_locks, call, callsLeft>>
    /\ UNCHANGED <<positions, known_positions, current_positions,
                   movesLeft, sweepsLeft>>
    /\ UNCHANGED <<connVars, wsVars, auxVars>>

NextRaise == LoopNext \/ PollNoTerminal \/ DiffRaise

\* the loop between two cycles, the terminal keeping one snapshot
SpecRaise == InitDiff /\ [][NextRaise]_vars

\* C37: the remembered snapshot changes only in the step that ends a cycle
\* whose diff was run through, and then becomes the cycle's snapshot; a
\* cycle that raises or finds no terminal state leaves it as it was; and by
\* the end of the next completed cycle every event of the cycles that raised
\* has been emitted again.
C37_SnapshotKeptUnlessCycleCompletes ==
    [][/\ (known_positions' # known_positions) => loop.pc = "commit"
       /\ (loop.pc = "commit" /\ loop'.pc # "commit") =>
              known_positions' = current_positions
       /\ (loop.pc \in {"opens", "closes", "updates"} /\ loop'.pc = "read") =>
              known_positions' = known_positions
       /\ (loop.pc = "read" /\ loop'.pc = "read") =>
              known_positions' = known_positions
       /\ (loop.pc = "commit") =>
              \A e \in Range(loop.raised) : e \in Range(emitted)
      ]_vars

\* a cycle has raised while closing, after it had emitted an opened event,
\* and the next cycle has come to its end
C37_Witness ==
    /\ loop.pc = "commit"
    /\ \E e \in Range(loop.raised) : e.kind = "opened"
    /\ \E e \in Range(loop.raised) : e.kind = "closed"
    /\ known_positions # current_positions

\* ------------------------------------------- C38: CLOSED is terminal
\* the fields of a row that closing settles
Settled(row) ==
    <<row.status, row.exit_price, row.pnl, row.sl, row.tp>>

\* C38: no step changes the status, exit price, P&L, stop-loss or take-profit
\* of a row that is CLOSED, and no row is removed; an opened event for the
\* external id of a CLOSED row adds a row.
C38_ClosedIsTerminal ==
    [][/\ Len(trades') >= Len(trades)
       /\ \A i \in DOMAIN trades :
             trades[i].status = "CLOSED" => Settled(trades'[i]) = Settled(trades[i])
      ]_vars

\* ------------------------------------------- C39: two re-scoring tasks
\* the re-scoring tasks of modifications of the trade of k that were
\* scheduled after k and have saved their result
SavedLater(k) ==
    {j \in background_tasks : /\ j.kind = "modified" /\ j.trade_id = k.trade_id
                              /\ j.at > k.at /\ j.pc = "bcast"}

\* C39: the re-scoring task of a modification does not save its score and
\* analysis on the row once the task of a later modification of the same
\* trade has saved its own, so that what stays on the row is the result
\* computed for the later modification.
C39_LaterModificationWins ==
    [][\A k \in background_tasks :
          (/\ k.kind = "modified" /\ k.pc = "select"
           /\ [k EXCEPT !.pc = "bcast"] \in background_tasks') =>
              SavedLater(k) = {}
      ]_vars

\* ------------------------------------------- C40: the per-key lock
\* the call of t is inside "async with lock" (lines 104-105)
InSection(t) ==
    call[t].op = "open" /\ call[t].pc \in {"o_select", "o_commit", "o_bcast", "o_finish"}

\* C40: two opened calls of one (user, external id) are never inside the
\* locked check-and-insert section together, and the call inside is the
\* holder of the key's one lock; a call starts to wait only when a call of
\* its own key is inside, so calls of different keys never wait for one
\* another; and a lock once created for a key stays in the table.
C40_PerKeyLock ==
    [][/\ \A t \in Tasks, t2 \in Tasks :
             (t # t2 /\ InSection(t) /\ InSection(t2)) =>
                 <<call[t].user, call[t].ext>> # <<call[t2].user, call[t2].ext>>
       /\ \A t \in Tasks :
             InSection(t) =>
                 /\ <<call[t].user, call[t].ext>> \in DOMAIN open_trade_locks
                 /\ open_trade_locks[<<call[t].user, call[t].ext>>] = t
       /\ \A t \in Tasks :
             (call[t].pc # "o_wait" /\ call'[t].pc = "o_wait") =>
                 \E t2 \in Tasks \ {t} :
                     /\ InSection(t2)
                     /\ call[t2].user = call'[t].user
                     /\ call[t2].ext = call'[t].ext
       /\ DOMAIN open_trade_locks \subseteq DOMAIN open_trade_locks'
      ]_vars

\* two opened calls of different keys are inside their sections at once,
\* each holding the lock of its own key
C40_Witness ==
    \E t \in Tasks, t2 \in Tasks :
        /\ InSection(t) /\ InSection(t2)
        /\ call[t].user # call[t2].user
        /\ call[t].pc = "o_commit" /\ call[t2].pc = "o_commit"
        /\ Cardinality(DOMAIN open_trade_locks) = 2

====
